---- MODULE Spec2Model ----
(***************************************************************************)
(* create-mococa-app: the command line of bin/cli.js as a state machine.   *)
(* main() parses process.argv, builds the question list, asks the prompt   *)
(* collaborator, resolves the generation config, checks the target         *)
(* directory, walks the template (copyDirectory) and optionally clones the *)
(* API repository.  Strings are TLA+ strings; JavaScript's string          *)
(* functions are computed character by character with Len, SubSeq and \o.  *)
(***************************************************************************)
EXTENDS Integers, Sequences, FiniteSets, TLC

VARIABLES
    argv,       \* process.argv.slice(2)
    pc,         \* position of main(): "main", "prompts", "resolve", "target", "copy",
                \* "clone", "finish", "done", or "exit" after process.exit(1)
    questions,  \* the question list handed to prompts()
    response,   \* the answers object prompts() returned
    config,     \* the resolved generation config
    disk0,      \* the files below the working directory when the process started
    disk,       \* the files below the working directory now
    confirm,    \* the confirmation asked for the target directory and its answer
    removed,    \* TRUE once fs.rmSync removed the target path
    exitCode    \* process exit code

vars == <<argv, pc, questions, response, config, disk0, disk, confirm, removed, exitCode>>

(***************************************************************************)
(* Bounds of the model.                                                    *)
(***************************************************************************)
MaxArgs == 3

(***************************************************************************)
(* JavaScript values.                                                      *)
(***************************************************************************)
\* null and undefined: a string no command line token or answer can be
Null == "<null>"

Truthy(v) == v # Null /\ v # ""

(***************************************************************************)
(* String functions of JavaScript, as the code uses them.                  *)
(***************************************************************************)
StartsWith(s, p) == Len(s) >= Len(p) /\ SubSeq(s, 1, Len(p)) = p

StrIncludes(s, p) == \E i \in 1..(Len(s) - Len(p) + 1) : SubSeq(s, i, i + Len(p) - 1) = p

\* the least element of a set of positions, 0 if there is none
First(positions) ==
    IF positions = {} THEN 0 ELSE CHOOSE i \in positions : \A j \in positions : i <= j

\* position of the first occurrence of p in s at or after position i, 0 if none
IndexFrom(s, p, i) ==
    First({j \in i..(Len(s) - Len(p) + 1) : SubSeq(s, j, j + Len(p) - 1) = p})

\* s.split(sep), sep a non-empty literal
RECURSIVE Split(_, _)
Split(s, sep) ==
    LET i == IndexFrom(s, sep, 1)
    IN  IF i = 0 THEN <<s>>
        ELSE <<SubSeq(s, 1, i - 1)>> \o Split(SubSeq(s, i + Len(sep), Len(s)), sep)

\* parts.join(sep)
RECURSIVE Join(_, _)
Join(parts, sep) ==
    IF Len(parts) = 0 THEN ""
    ELSE IF Len(parts) = 1 THEN parts[1]
    ELSE parts[1] \o sep \o Join(Tail(parts), sep)

\* array.includes(x)
Includes(arr, x) == \E i \in 1..Len(arr) : arr[i] = x

\* s.split(sep)[1], undefined when there is no second element
SplitSecond(s, sep) == LET parts == Split(s, sep) IN IF Len(parts) >= 2 THEN parts[2] ELSE Null

LowerChars == "abcdefghijklmnopqrstuvwxyz"
UpperChars == "ABCDEFGHIJKLMNOPQRSTUVWXYZ"
DigitChars == "0123456789"

CharIn(c, chars) == \E i \in 1..Len(chars) : SubSeq(chars, i, i) = c

LowerChar(c) ==
    LET i == IndexFrom(UpperChars, c, 1)
    IN  IF i = 0 THEN c ELSE SubSeq(LowerChars, i, i)

\* s.toLowerCase()
RECURSIVE ToLowerCase(_)
ToLowerCase(s) ==
    IF Len(s) = 0 THEN ""
    ELSE LowerChar(SubSeq(s, 1, 1)) \o ToLowerCase(SubSeq(s, 2, Len(s)))

\* every character of s is one of chars
AllIn(s, chars) == \A i \in 1..Len(s) : CharIn(SubSeq(s, i, i), chars)

\* s.trim()
RECURSIVE TrimStart(_)
TrimStart(s) ==
    IF Len(s) > 0 /\ SubSeq(s, 1, 1) = " " THEN TrimStart(SubSeq(s, 2, Len(s))) ELSE s

RECURSIVE TrimEnd(_)
TrimEnd(s) ==
    IF Len(s) > 0 /\ SubSeq(s, Len(s), Len(s)) = " " THEN TrimEnd(SubSeq(s, 1, Len(s) - 1)) ELSE s

Trim(s) == TrimEnd(TrimStart(s))

(***************************************************************************)
(* main(): flags and positional arguments (cli.js 79-160).                 *)
(***************************************************************************)
Features == {"api", "cognito", "lambda", "dynamo", "s3", "environments"}

\* Default values when --skip is used
defaultValues == [f \in Features |-> "false"]

skipPrompts == Includes(argv, "--skip")
fullSetup == Includes(argv, "--full")

\* the values of one argument when only the flag=value form is read
MultiTextValueAtEquals(flagName, index) ==
    IF StartsWith(argv[index], flagName) /\ StrIncludes(argv[index], "=")
    THEN <<SplitSecond(argv[index], "=")>>
    ELSE <<>>

\* the values of one argument (args.forEach callback of parseMultiTextFlag)
MultiTextValueAt(flagName, index) ==
    IF StartsWith(argv[index], flagName)
    THEN IF StrIncludes(argv[index], "=")
         THEN <<SplitSecond(argv[index], "=")>>
         ELSE IF index + 1 <= Len(argv) /\ Truthy(argv[index + 1]) /\ ~StartsWith(argv[index + 1], "--")
              THEN <<argv[index + 1]>>
              ELSE <<>>
    ELSE <<>>

RECURSIVE MultiTextValuesFrom(_, _)
MultiTextValuesFrom(flagName, index) ==
    IF index > Len(argv) THEN <<>>
    ELSE MultiTextValueAt(flagName, index) \o MultiTextValuesFrom(flagName, index + 1)

parseMultiTextFlag(flagName) == MultiTextValuesFrom(flagName, 1)

exceptFlags == parseMultiTextFlag("--except") \o parseMultiTextFlag("-e")

\* a parseFlag that looks at --skip before --full
parseFlagSkipFirst(flagName, defaultKey) ==
    IF Includes(exceptFlags, defaultKey) THEN "false"
    ELSE IF Includes(argv, flagName) THEN "true"
    ELSE IF skipPrompts THEN defaultValues[defaultKey]
    ELSE IF fullSetup THEN "true"
    ELSE Null

\* "true", "false" or Null
parseFlag(flagName, defaultKey) ==
    IF Includes(exceptFlags, defaultKey) THEN "false"
    ELSE IF Includes(argv, flagName) THEN "true"
    ELSE IF fullSetup THEN "true"
    ELSE IF skipPrompts THEN defaultValues[defaultKey]
    ELSE Null

\* args.findIndex(arg => arg.startsWith(flagName)), 0 for JavaScript's -1
RECURSIVE FindIndexStartsWith(_, _)
FindIndexStartsWith(flagName, index) ==
    IF index > Len(argv) THEN 0
    ELSE IF StartsWith(argv[index], flagName) THEN index
    ELSE FindIndexStartsWith(flagName, index + 1)

\* indices are 1-based here, valueIndex 0 is JavaScript's -1
parseTextFlag(flagName) ==
    LET flagIndex == FindIndexStartsWith(flagName, 1)
    IN  IF flagIndex = 0 THEN [value |-> Null, valueIndex |-> 0]
        ELSE IF StrIncludes(argv[flagIndex], "=")
             THEN [value |-> SplitSecond(argv[flagIndex], "="), valueIndex |-> 0]
        ELSE IF flagIndex + 1 <= Len(argv) /\ Truthy(argv[flagIndex + 1])
                /\ ~StartsWith(argv[flagIndex + 1], "--")
             THEN [value |-> argv[flagIndex + 1], valueIndex |-> flagIndex + 1]
        ELSE [value |-> Null, valueIndex |-> 0]

parseSimpleFlag(flagNames) == \E flag \in flagNames : Includes(argv, flag)

includeLambda == parseFlag("--lambda", "lambda")
includeDynamo == parseFlag("--dynamo", "dynamo")
includeS3 == parseFlag("--s3", "s3")
includeApi == parseFlag("--api", "api")
includeCognito == parseFlag("--cognito", "cognito")
includeEnvironments == parseFlag("--environments", "environments")
useCurrentDir == parseSimpleFlag({"--current", "-c"})

customDomain == parseTextFlag("--domain").value
domainValueIndex == parseTextFlag("--domain").valueIndex

\* args.find(...): the first non-flag argument that is not the domain value
RECURSIVE FindProjectName(_)
FindProjectName(index) ==
    IF index > Len(argv) THEN Null
    ELSE IF ~StartsWith(argv[index], "--") /\ ~StartsWith(argv[index], "-")
            /\ index # domainValueIndex
         THEN argv[index]
    ELSE FindProjectName(index + 1)

customProjectName == FindProjectName(1)

(***************************************************************************)
(* main(): the question list (cli.js 162-295).                             *)
(***************************************************************************)
shouldPromptFeatures ==
    /\ ~skipPrompts
    /\ includeLambda = Null
    /\ includeDynamo = Null
    /\ includeS3 = Null
    /\ includeApi = Null
    /\ includeCognito = Null
    /\ includeEnvironments = Null

explicitEnvironmentsFlag == Includes(argv, "--environments")

ProjectNameQuestions == IF ~Truthy(customProjectName) THEN <<"projectName">> ELSE <<>>

\* the domain question suppressed by --skip alone
DomainQuestionsUnlessSkip ==
    IF ~Truthy(customDomain) /\ ~skipPrompts THEN <<"domain">> ELSE <<>>

DomainQuestions ==
    IF ~Truthy(customDomain) /\ ~skipPrompts /\ ~fullSetup THEN <<"domain">> ELSE <<>>

DirectoryQuestions ==
    IF ~useCurrentDir /\ ~skipPrompts /\ ~fullSetup THEN <<"directoryChoice">> ELSE <<>>

FeatureQuestions ==
    IF shouldPromptFeatures
    THEN <<"wantApi", "apiType", "wantCognito", "wantLambda", "wantDynamo", "wantS3",
           "wantEnvironments">>
    ELSE <<>>

EnvironmentsQuestions ==
    IF (explicitEnvironmentsFlag \/ shouldPromptFeatures) /\ ~skipPrompts /\ ~fullSetup
    THEN <<"environments">>
    ELSE <<>>

\* the names of the questions pushed, in the order of the pushes
BuildQuestions ==
    ProjectNameQuestions \o DomainQuestions \o DirectoryQuestions \o FeatureQuestions
        \o EnvironmentsQuestions

(***************************************************************************)
(* The validate callbacks of the questions.                                *)
(***************************************************************************)
NameChars == LowerChars \o DigitChars \o "-"

\* /^[a-z0-9-]+$/.test(value)
MatchesName(value) == Len(value) > 0 /\ AllIn(value, NameChars)

\* validate of the projectName question (cli.js 171-177)
ValidateProjectName(value) == Truthy(value) /\ MatchesName(value)

\* /^[a-z0-9.-]+\.[a-z]{2,}$/.test(value)
MatchesDomain(value) ==
    \E i \in 2..Len(value) :
        /\ SubSeq(value, i, i) = "."
        /\ AllIn(SubSeq(value, 1, i - 1), NameChars \o ".")
        /\ Len(value) - i >= 2
        /\ AllIn(SubSeq(value, i + 1, Len(value)), LowerChars)

\* validate of the domain question (cli.js 191-197)
ValidateDomain(value) == Truthy(value) /\ MatchesDomain(value)

\* value.split(',').map(e => e.trim())
SplitEnvironments(value) ==
    LET parts == Split(value, ",") IN [i \in 1..Len(parts) |-> Trim(parts[i])]

\* a validate that asks for a value and does not look at its elements
ValidateEnvironmentsNonEmpty(value) == Truthy(value)

\* validate of the environments question (cli.js 286-293)
ValidateEnvironments(value) ==
    /\ Truthy(value)
    /\ \A i \in 1..Len(SplitEnvironments(value)) : MatchesName(SplitEnvironments(value)[i])

(***************************************************************************)
(* The prompt collaborator: prompts(questions) asks the questions in       *)
(* order, skips a question whose type evaluates to null, asks again until  *)
(* validate accepts, and returns the answers given so far when the user    *)
(* cancels.                                                                *)
(***************************************************************************)
\* what a user may type for each text question
ProjectNameInputs == {"acme", "my-app", "-", "My App!!", ""}
DomainInputs == {"acme.io", "acme", ""}
EnvironmentsInputs ==
    {"dev, staging , prod", "staging,production", "production", "dev,,prod", "Dev", ""}

Answered(values, name) == name \in DOMAIN values

\* the type of a question, given the answers so far: FALSE when it is null
QuestionAsked(name, values) ==
    CASE name = "apiType" -> Answered(values, "wantApi") /\ values["wantApi"]
      [] name = "environments" ->
            explicitEnvironmentsFlag
                \/ (Answered(values, "wantEnvironments") /\ values["wantEnvironments"])
      [] OTHER -> TRUE

\* the answers the collaborator accepts for a question
Answers(name) ==
    CASE name = "projectName" -> {v \in ProjectNameInputs : ValidateProjectName(v)}
      [] name = "domain" -> {v \in DomainInputs : ValidateDomain(v)}
      [] name = "directoryChoice" -> {"current", "new"}
      [] name = "apiType" -> {"elysia"}
      [] name = "environments" -> {v \in EnvironmentsInputs : ValidateEnvironments(v)}
      [] OTHER -> BOOLEAN

\* every answers object prompts(qs) may return, starting from values
RECURSIVE Responses(_, _)
Responses(qs, values) ==
    IF Len(qs) = 0 THEN {values}
    ELSE IF ~QuestionAsked(Head(qs), values) THEN Responses(Tail(qs), values)
    ELSE {values}
           \cup UNION {Responses(Tail(qs), values @@ (Head(qs) :> a)) : a \in Answers(Head(qs))}

\* response.<name>, undefined when the question was not answered
Answer(name) == IF Answered(response, name) THEN response[name] ELSE Null

\* response.<name> || false, for a confirm question
Want(name) == Answered(response, name) /\ response[name]

(***************************************************************************)
(* main(): the resolved values (cli.js 299-352).                           *)
(***************************************************************************)
rawProjectName == IF Truthy(customProjectName) THEN customProjectName ELSE Answer("projectName")

\* s.replace(/[^a-z0-9]+/g, '-'): inRun is TRUE inside a run already replaced
RECURSIVE ReplaceNonAlnum(_, _)
ReplaceNonAlnum(s, inRun) ==
    IF Len(s) = 0 THEN ""
    ELSE IF CharIn(SubSeq(s, 1, 1), LowerChars \o DigitChars)
         THEN SubSeq(s, 1, 1) \o ReplaceNonAlnum(SubSeq(s, 2, Len(s)), FALSE)
    ELSE IF inRun THEN ReplaceNonAlnum(SubSeq(s, 2, Len(s)), TRUE)
    ELSE "-" \o ReplaceNonAlnum(SubSeq(s, 2, Len(s)), TRUE)

RECURSIVE StripLeadingHyphens(_)
StripLeadingHyphens(s) ==
    IF Len(s) > 0 /\ SubSeq(s, 1, 1) = "-" THEN StripLeadingHyphens(SubSeq(s, 2, Len(s))) ELSE s

RECURSIVE StripTrailingHyphens(_)
StripTrailingHyphens(s) ==
    IF Len(s) > 0 /\ SubSeq(s, Len(s), Len(s)) = "-"
    THEN StripTrailingHyphens(SubSeq(s, 1, Len(s) - 1))
    ELSE s

\* Kebabify and lowercase the project name (cli.js 308-311)
Kebabify(raw) == StripTrailingHyphens(StripLeadingHyphens(ReplaceNonAlnum(ToLowerCase(raw), FALSE)))

projectName == Kebabify(rawProjectName)

targetDir ==
    IF useCurrentDir \/ Answer("directoryChoice") = "current" THEN "." ELSE "./" \o projectName

\* the domain without the --domain flag
domainWithoutFlag ==
    IF Truthy(Answer("domain")) THEN Answer("domain") ELSE projectName \o ".com"

domain ==
    IF Truthy(customDomain) THEN customDomain
    ELSE IF Truthy(Answer("domain")) THEN Answer("domain")
    ELSE projectName \o ".com"

\* path.join(a, b), for a directory a and a relative path b ("" is the directory itself)
PathJoin(a, b) == IF a = "" THEN b ELSE IF b = "" THEN a ELSE a \o "/" \o b

\* the segments of a path that path.resolve keeps
RECURSIVE Segments(_)
Segments(parts) ==
    IF Len(parts) = 0 THEN <<>>
    ELSE IF Head(parts) = "." \/ Head(parts) = "" THEN Segments(Tail(parts))
    ELSE <<Head(parts)>> \o Segments(Tail(parts))

\* path.resolve(process.cwd(), dir), as a path below the working directory ("" is the
\* working directory itself)
PathResolve(dir) == Join(Segments(Split(dir, "/")), "/")

targetPath == PathResolve(targetDir)

\* Priority: CLI flag > prompt response > default value (cli.js 339-347)
FinalFlag(include, want) == IF include # Null THEN include = "true" ELSE Want(want)

finalIncludeApi == FinalFlag(includeApi, "wantApi")
finalApiType == IF Truthy(Answer("apiType")) THEN Answer("apiType") ELSE "elysia"
finalIncludeCognito == FinalFlag(includeCognito, "wantCognito")
finalIncludeLambda == FinalFlag(includeLambda, "wantLambda")
finalIncludeDynamo == FinalFlag(includeDynamo, "wantDynamo")
finalIncludeS3 == FinalFlag(includeS3, "wantS3")
finalIncludeEnvironments == FinalFlag(includeEnvironments, "wantEnvironments")

\* the production environment alone, whatever the answer
environmentsDefault == <<"production">>

environments ==
    IF finalIncludeEnvironments /\ Truthy(Answer("environments"))
    THEN SplitEnvironments(Answer("environments"))
    ELSE <<"production">>

\* the values main() hands to the file system stage
ResolvedConfig ==
    [projectName |-> projectName,
     domain |-> domain,
     targetDir |-> targetDir,
     targetPath |-> targetPath,
     includeApi |-> finalIncludeApi,
     apiType |-> finalApiType,
     includeCognito |-> finalIncludeCognito,
     includeLambda |-> finalIncludeLambda,
     includeDynamo |-> finalIncludeDynamo,
     includeS3 |-> finalIncludeS3,
     includeEnvironments |-> finalIncludeEnvironments,
     environments |-> environments]

(***************************************************************************)
(* The template tree (template/).  A file is given by its lines that carry *)
(* the placeholder or that a rewrite of copyDirectory matches; the lines   *)
(* left out pass through the walk unchanged.  A TLA+ string cannot hold    *)
(* the backquote character: the backquote of the source is written ~.      *)
(***************************************************************************)
Placeholder == "{{PROJECT_NAME}}"

\* path.resolve(__dirname, '../template')
templateDir == "/create-mococa-app/template"

\* fs.readdirSync of every directory of the template, by relative path
TemplateDirs ==
    [d \in {"", ".prompt", "apps", "apps/landing-page", "apps/landing-page/src",
            "infrastructure", "infrastructure/src", "infrastructure/src/components",
            "infrastructure/src/resources", "infrastructure/src/resources/lambdas",
            "infrastructure/src/resources/lambdas/example",
            "infrastructure/src/resources/lambdas/lambda", "packages",
            "packages/constants", "packages/constants/src", "packages/lambdas",
            "packages/lambdas/src", "packages/lambdas/src/common",
            "packages/lambdas/src/example", "packages/ui"} |->
        CASE d = "" -> <<".prompt", "README.md", "apps", "biome.json", "infrastructure",
                         "package.json", "packages">>
          [] d = ".prompt" -> <<"NULLSTACK.md">>
          [] d = "apps" -> <<"landing-page">>
          [] d = "apps/landing-page" ->
                <<"package.json", "server.js", "src", "tailwind.config.js", "webpack.config.js">>
          [] d = "apps/landing-page/src" -> <<"Application.jsx", "Home.jsx">>
          [] d = "infrastructure" -> <<"Pulumi.yaml", "README.md", "package.json", "src">>
          [] d = "infrastructure/src" -> <<"components", "index.ts", "resources">>
          [] d = "infrastructure/src/components" -> <<"backend.ts">>
          [] d = "infrastructure/src/resources" ->
                <<"apigateway.ts", "certificate.ts", "cognito.ts", "dns.ts", "dynamo.ts",
                  "lambdas", "s3-storage.ts", "s3-website.ts">>
          [] d = "infrastructure/src/resources/lambdas" -> <<"example", "index.ts", "lambda">>
          [] d = "infrastructure/src/resources/lambdas/example" -> <<"index.ts">>
          [] d = "infrastructure/src/resources/lambdas/lambda" -> <<"index.ts">>
          [] d = "packages" -> <<"constants", "lambdas", "ui">>
          [] d = "packages/constants" -> <<"README.md", "package.json", "src">>
          [] d = "packages/constants/src" -> <<"index.ts">>
          [] d = "packages/lambdas" -> <<"README.md", "build.js", "package.json", "src">>
          [] d = "packages/lambdas/src" -> <<"common", "example">>
          [] d = "packages/lambdas/src/common" -> <<"index.ts">>
          [] d = "packages/lambdas/src/example" -> <<"post.ts">>
          [] d = "packages/ui" -> <<"README.md", "package.json">>]

RootReadmeMd == <<"# {{PROJECT_NAME}}">>

NullstackMd == <<"### Nullstack Overview">>

ServerJs ==
    <<"context.project.name = '{{PROJECT_NAME}}';",
      "context.project.shortName = '{{PROJECT_NAME}}';">>

HomeJsx == <<"            Welcome to {{PROJECT_NAME}}">>

ApplicationJsx == <<"import Home from './Home';">>

InfrastructureReadmeMd ==
    <<"Pulumi infrastructure as code for {{PROJECT_NAME}}.",
      "Configuration values are read from ~@{{PROJECT_NAME}}/constants~ package, including:">>

ConstantsReadmeMd ==
    <<"Shared constants for the {{PROJECT_NAME}} project.",
      "import { PROJECT_NAME, DOMAINS, DYNAMODB_TABLES, S3_STORAGE_BUCKETS } from '@{{PROJECT_NAME}}/constants';">>

LambdasReadmeMd == <<"AWS Lambda functions for {{PROJECT_NAME}}.">>

UiReadmeMd ==
    <<"Shared UI components library for the {{PROJECT_NAME}} monorepo.",
      "import { ComponentName } from '@{{PROJECT_NAME}}/ui';">>

ConstantsIndexTs ==
    <<"export const PROJECT_NAME = '{{PROJECT_NAME}}';",
      "export const DOMAIN_BASE = '{{PROJECT_NAME}}.com';">>

CertificateTs == <<"          organization: '{{PROJECT_NAME}}',">>

CognitoTs == <<"export class CognitoResource extends ComponentResource {">>

DnsTs == <<"export class DNSResource extends ComponentResource {">>

DynamoTs ==
    <<"import { DYNAMODB_TABLES, type Environment } from '@{{PROJECT_NAME}}/constants';",
      "export class DynamoResource extends ComponentResource {">>

S3StorageTs ==
    <<"import { S3_STORAGE_BUCKETS, type Environment } from '@{{PROJECT_NAME}}/constants';",
      "export class S3StorageResource extends ComponentResource {">>

S3WebsiteTs == <<"export class S3Website extends ComponentResource {">>

LambdaIndexTs == <<"export class LambdaResource<T> extends ComponentResource<T> {">>

LambdasIndexTs ==
    <<"import { LambdaResource } from './lambda';",
      "import { Example } from './example';",
      "export class ApiLambdas extends ComponentResource {">>

LambdasExampleIndexTs ==
    <<"      'index.js': new asset.FileAsset(require.resolve('@{{PROJECT_NAME}}/lambdas/example/get')),",
      "      'index.js': new asset.FileAsset(require.resolve('@{{PROJECT_NAME}}/lambdas/example/post')),">>

ApigatewayTs ==
    <<"import { ApiLambdas } from './lambdas';",
      "import type { DynamoResource } from './dynamo';",
      "interface Props {",
      "  environment: string;",
      "  certificate: string | Output<string>;",
      "  domain: string;",
      "  dynamodb?: DynamoResource;",
      "}",
      "export class ApigatewayResource extends ComponentResource {">>

LambdasBuildJs == <<"import { build } from 'esbuild';">>

LambdasCommonIndexTs == <<"export const safewrapper =">>

LambdasExamplePostTs == <<"export const handler = safewrapper(async (event) => {">>

TailwindConfigJs == <<"module.exports = {">>

WebpackConfigJs == <<"const [server, client] = require('nullstack/webpack.config');">>

\* infrastructure/src/index.ts: lines 1-15, 26 and 47-63
InfrastructureIndexTs ==
    <<"/* ---------- External ---------- */",
      "import { Config } from '@pulumi/pulumi';",
      "import { join } from 'node:path';",
      "",
      "/* ---------- Resources ---------- */",
      "import { CertificateResource } from './resources/certificate';",
      "import { S3Website } from './resources/s3-website';",
      "import { DNSResource } from './resources/dns';",
      "",
      "/* ---------- Components ---------- */",
      "import { BackendComponent } from './components/backend';",
      "",
      "/* ---------- Constants ---------- */",
      "import { DOMAIN_BASE, DOMAINS, type Environment } from '@{{PROJECT_NAME}}/constants';",
      "",
      "  path: join(require.resolve('@{{PROJECT_NAME}}/landing-page'), '../ssg'),",
      "",
      "/* ---------- Backend ---------- */",
      "const backend = new BackendComponent(",
      "  ~backend-${environment}~,",
      "  {",
      "    environment,",
      "    certificateArn: certificate.acm.arn,",
      "  },",
      "  { dependsOn: [certificate.acm] },",
      ");",
      "",
      "/* ---------- Exports ---------- */",
      "export const websiteUrl = website.website.websiteEndpoint;",
      "export const apigwUrl = backend.apigateway.api.apiEndpoint;",
      "export const dynamoTableName = backend.dynamo.table.name;",
      "export const s3StorageBucketName = backend.storage.bucket.bucket;",
      "export const cognitoUserPoolId = backend.cognito.userpool.id;",
      "export const cognitoUserPoolClientId = backend.cognito.userpoolClient.id;">>

\* infrastructure/src/components/backend.ts
BackendTs ==
    <<"/* ---------- External ---------- */",
      "import { ComponentResource, type ComponentResourceOptions } from '@pulumi/pulumi';",
      "",
      "/* ---------- Resources ---------- */",
      "import { DynamoResource } from '../resources/dynamo';",
      "import { S3StorageResource } from '../resources/s3-storage';",
      "import { ApigatewayResource } from '../resources/apigateway';",
      "import { CognitoResource } from '../resources/cognito';",
      "import { DNSResource } from '../resources/dns';",
      "",
      "/* ---------- Constants ---------- */",
      "import {",
      "  DOMAIN_BASE,",
      "  DYNAMODB_TABLES,",
      "  S3_BUCKETS,",
      "  COGNITO_USER_POOLS,",
      "  COGNITO_USER_POOL_CLIENTS,",
      "  type Environment",
      "} from '@{{PROJECT_NAME}}/constants';",
      "",
      "/* ---------- Interfaces ---------- */",
      "interface Props {",
      "  /**",
      "   * Application environment, such as development, staging, production...",
      "   */",
      "  environment: string;",
      "",
      "  /**",
      "   * ACM certificate ARN for API Gateway custom domain",
      "   */",
      "  certificateArn: string;",
      "",
      "  /**",
      "   * Custom domain for API Gateway",
      "   */",
      "  apigwDomain: string;",
      "}",
      "",
      "export class BackendComponent extends ComponentResource {",
      "  public readonly dynamo: DynamoResource;",
      "  public readonly storage: S3StorageResource;",
      "  public readonly apigateway: ApigatewayResource;",
      "  public readonly cognito: CognitoResource;",
      "",
      "  public constructor(name: string, props: Props, opts?: ComponentResourceOptions) {",
      "    super(~${name}:backend:${props.environment}~, name, {}, opts);",
      "",
      "    const { environment, certificateArn, apigwDomain } = props;",
      "",
      "    /* ---------- Resource Names ---------- */",
      "    const tableName = DYNAMODB_TABLES[environment as Environment];",
      "    const bucketName = S3_BUCKETS[environment as Environment];",
      "    const userpoolName = COGNITO_USER_POOLS[environment as Environment];",
      "    const userpoolClientName = COGNITO_USER_POOL_CLIENTS[environment as Environment];",
      "",
      "    /* ---------- DynamoDB ---------- */",
      "    this.dynamo = new DynamoResource('dynamo', { environment, tableName }, { parent: this });",
      "",
      "    /* ---------- S3 Storage ---------- */",
      "    this.storage = new S3StorageResource('storage', { environment, bucketName }, { parent: this });",
      "",
      "    /* ---------- Cognito ---------- */",
      "    this.cognito = new CognitoResource('cognito', { environment, userpoolName, userpoolClientName }, { parent: this });",
      "",
      "    /* ---------- API Gateway + Lambdas ---------- */",
      "    this.apigateway = new ApigatewayResource(",
      "      'api',",
      "      {",
      "        environment,",
      "        certificate: certificateArn,",
      "        domain: apigwDomain,",
      "        dynamodb: this.dynamo,",
      "      },",
      "      { parent: this },",
      "    );",
      "",
      "    /* ---------- API Gateway DNS ---------- */",
      "    const apigwSubdomain = apigwDomain.replace(~.${DOMAIN_BASE}~, '');",
      "    new DNSResource(",
      "      ~api-dns-${environment}~,",
      "      {",
      "        environment,",
      "        subdomain: apigwSubdomain,",
      "        name: 'api',",
      "        cname: this.apigateway.domain.domainNameConfiguration.targetDomainName,",
      "        type: 'CNAME',",
      "        comment: 'API Gateway',",
      "      },",
      "      { parent: this, dependsOn: [this.apigateway.domain] },",
      "    );",
      "  }",
      "}">>

\* the manifests and configuration files of the template
RootPackageJson ==
    <<"{",
      "  \"name\": \"{{PROJECT_NAME}}\",",
      "  \"scripts\": {",
      "    \"start\": \"bun run --filter '@{{PROJECT_NAME}}/landing-page' start\",",
      "    \"build\": \"bun run build:website && bun run build:lambdas\",",
      "    \"build:website\": \"bun run --filter '@{{PROJECT_NAME}}/landing-page' build\",",
      "    \"build:lambdas\": \"bun run --filter '@{{PROJECT_NAME}}/lambdas' build\"",
      "  }",
      "}">>

LandingPagePackageJson ==
    <<"{",
      "  \"name\": \"@{{PROJECT_NAME}}/landing-page\",",
      "  \"scripts\": {",
      "    \"start\": \"nullstack start\",",
      "    \"build\": \"nullstack build\"",
      "  }",
      "}">>

InfrastructurePackageJson ==
    <<"{",
      "  \"name\": \"@{{PROJECT_NAME}}/infrastructure\",",
      "  \"scripts\": {",
      "    \"deploy\": \"pulumi up\"",
      "  }",
      "}">>

ConstantsPackageJson == <<"{", "  \"name\": \"@{{PROJECT_NAME}}/constants\"", "}">>

LambdasPackageJson ==
    <<"{",
      "  \"name\": \"@{{PROJECT_NAME}}/lambdas\",",
      "  \"scripts\": {",
      "    \"build\": \"bun run build.js\"",
      "  }",
      "}">>

UiPackageJson == <<"{", "  \"name\": \"@{{PROJECT_NAME}}/ui\"", "}">>

PulumiYaml == <<"name: {{PROJECT_NAME}}", "runtime: nodejs">>

BiomeJson == <<"{", "}">>

\* fs.readFileSync(srcPath, 'utf8') of every file of the template, by relative path
TemplateContent ==
    (".prompt/NULLSTACK.md" :> NullstackMd)
    @@ ("README.md" :> RootReadmeMd)
    @@ ("apps/landing-page/package.json" :> LandingPagePackageJson)
    @@ ("apps/landing-page/server.js" :> ServerJs)
    @@ ("apps/landing-page/src/Application.jsx" :> ApplicationJsx)
    @@ ("apps/landing-page/src/Home.jsx" :> HomeJsx)
    @@ ("apps/landing-page/tailwind.config.js" :> TailwindConfigJs)
    @@ ("apps/landing-page/webpack.config.js" :> WebpackConfigJs)
    @@ ("biome.json" :> BiomeJson)
    @@ ("infrastructure/Pulumi.yaml" :> PulumiYaml)
    @@ ("infrastructure/README.md" :> InfrastructureReadmeMd)
    @@ ("infrastructure/package.json" :> InfrastructurePackageJson)
    @@ ("infrastructure/src/components/backend.ts" :> BackendTs)
    @@ ("infrastructure/src/index.ts" :> InfrastructureIndexTs)
    @@ ("infrastructure/src/resources/apigateway.ts" :> ApigatewayTs)
    @@ ("infrastructure/src/resources/certificate.ts" :> CertificateTs)
    @@ ("infrastructure/src/resources/cognito.ts" :> CognitoTs)
    @@ ("infrastructure/src/resources/dns.ts" :> DnsTs)
    @@ ("infrastructure/src/resources/dynamo.ts" :> DynamoTs)
    @@ ("infrastructure/src/resources/lambdas/example/index.ts" :> LambdasExampleIndexTs)
    @@ ("infrastructure/src/resources/lambdas/index.ts" :> LambdasIndexTs)
    @@ ("infrastructure/src/resources/lambdas/lambda/index.ts" :> LambdaIndexTs)
    @@ ("infrastructure/src/resources/s3-storage.ts" :> S3StorageTs)
    @@ ("infrastructure/src/resources/s3-website.ts" :> S3WebsiteTs)
    @@ ("package.json" :> RootPackageJson)
    @@ ("packages/constants/README.md" :> ConstantsReadmeMd)
    @@ ("packages/constants/package.json" :> ConstantsPackageJson)
    @@ ("packages/constants/src/index.ts" :> ConstantsIndexTs)
    @@ ("packages/lambdas/README.md" :> LambdasReadmeMd)
    @@ ("packages/lambdas/build.js" :> LambdasBuildJs)
    @@ ("packages/lambdas/package.json" :> LambdasPackageJson)
    @@ ("packages/lambdas/src/common/index.ts" :> LambdasCommonIndexTs)
    @@ ("packages/lambdas/src/example/post.ts" :> LambdasExamplePostTs)
    @@ ("packages/ui/README.md" :> UiReadmeMd)
    @@ ("packages/ui/package.json" :> UiPackageJson)

\* entry.isDirectory()
IsDirectory(relativePath) == relativePath \in DOMAIN TemplateDirs

(***************************************************************************)
(* The file system below the working directory: the directories and the    *)
(* content of every file, by path ("" is the working directory).           *)
(***************************************************************************)
\* p is dir or lies below it
Under(p, dir) == dir = "" \/ p = dir \/ StartsWith(p, dir \o "/")

\* dir and the directories above it
Ancestors(dir) ==
    LET parts == Split(dir, "/") IN {""} \cup {Join(SubSeq(parts, 1, k), "/") : k \in 1..Len(parts)}

\* fs.existsSync(p)
ExistsSync(d, p) == p \in d.dirs \/ p \in DOMAIN d.files

\* fs.readdirSync(dir).length > 0
HasEntries(d, dir) == \E q \in d.dirs \cup DOMAIN d.files : q # dir /\ Under(q, dir)

\* fs.mkdirSync(dir, { recursive: true })
MkdirSync(d, dir) == [d EXCEPT !.dirs = @ \cup Ancestors(dir)]

\* a write that puts the path of the file into its content
WriteFileSyncWithPath(d, p, content) == [d EXCEPT !.files = (p :> (<<p>> \o content)) @@ @]

\* fs.writeFileSync(p, content)
WriteFileSync(d, p, content) == [d EXCEPT !.files = (p :> content) @@ @]

\* fs.rmSync(p, { recursive: true, force: true })
RmSync(d, p) ==
    [dirs |-> {q \in d.dirs : ~Under(q, p)},
     files |-> [q \in {q \in DOMAIN d.files : ~Under(q, p)} |-> d.files[q]]]

\* the configuration of the production environment, whatever the environment
generateProductionEnvConfig(name, environment) ==
    <<"config:",
      "  aws:profile: \"\"",
      "  aws:region: us-east-1",
      "  aws:defaultTags:",
      "    tags:",
      "      project: " \o name,
      "      environment: production",
      "  " \o name \o ":environment: production",
      "">>

(***************************************************************************)
(* The generators of derived files (cli.js 787-1015).  A text is the       *)
(* sequence of its lines.                                                  *)
(***************************************************************************)
\* items.map(f): the lines of the items, each followed by a comma
WithCommas(items) == [i \in 1..Len(items) |-> items[i] \o ","]

generatePulumiEnvConfig(name, environment) ==
    <<"config:",
      "  aws:profile: \"\"",
      "  aws:region: us-east-1",
      "  aws:defaultTags:",
      "    tags:",
      "      project: " \o name,
      "      environment: " \o environment,
      "  " \o name \o ":environment: " \o environment,
      "">>

ReadmeStructureItems(cfg) ==
    <<"- ~apps/landing-page~ - Nullstack landing page with Tailwind CSS">>
    \o (IF cfg.includeApi THEN <<"- ~apps/api~ - Elysia API server">> ELSE <<>>)
    \o <<"- ~packages/ui~ - Shared UI components library",
         "- ~packages/constants~ - Project constants and environment configuration">>
    \o (IF cfg.includeLambda THEN <<"- ~packages/lambdas~ - Lambda functions">> ELSE <<>>)
    \o (IF cfg.includeLambda \/ cfg.includeDynamo \/ cfg.includeS3 \/ cfg.includeCognito
        THEN <<"- ~infrastructure~ - Pulumi infrastructure as code">>
        ELSE <<>>)

ReadmeTechStack(cfg) ==
    <<"- [Nullstack](https://nullstack.app/) - Full-stack JavaScript framework",
      "- [Tailwind CSS](https://tailwindcss.com/) - Utility-first CSS framework",
      "- [Biome](https://biomejs.dev/) - Fast formatter and linter",
      "- [Bun](https://bun.sh/) - Fast JavaScript runtime and package manager with workspaces">>
    \o (IF cfg.includeApi
        THEN <<"- [Elysia](https://elysiajs.com/) - Fast Bun web framework">>
        ELSE <<>>)
    \o (IF cfg.includeLambda \/ cfg.includeDynamo \/ cfg.includeS3 \/ cfg.includeCognito
        THEN <<"- [Pulumi](https://www.pulumi.com/) - Infrastructure as Code">>
        ELSE <<>>)

\* the bullets of every backend resource, whatever the features
ReadmeBackendResourcesOfAll(cfg) ==
    <<"- **Cognito** - User authentication with email/password + OAuth",
      "- **DynamoDB** - NoSQL database with single-table design",
      "- **S3 Storage** - Private bucket for file uploads",
      "- **API Gateway + Lambdas** - Serverless API endpoints">>

ReadmeBackendResources(cfg) ==
    (IF cfg.includeCognito
     THEN <<"- **Cognito** - User authentication with email/password + OAuth">>
     ELSE <<>>)
    \o (IF cfg.includeDynamo
        THEN <<"- **DynamoDB** - NoSQL database with single-table design">>
        ELSE <<>>)
    \o (IF cfg.includeS3 THEN <<"- **S3 Storage** - Private bucket for file uploads">> ELSE <<>>)
    \o (IF cfg.includeLambda
        THEN <<"- **API Gateway + Lambdas** - Serverless API endpoints">>
        ELSE <<>>)

ReadmeBackendSection(cfg) ==
    IF cfg.includeLambda \/ cfg.includeDynamo \/ cfg.includeS3 \/ cfg.includeCognito
    THEN <<"",
           "## Infrastructure",
           "",
           "This project uses Pulumi for infrastructure management with a component-based architecture:",
           "",
           "### Backend Component",
           "",
           "All AWS backend resources are organized in ~infrastructure/src/components/backend.ts~:",
           "">>
         \o ReadmeBackendResources(cfg)
         \o <<"",
              "Deploy infrastructure:",
              "~~~bash",
              "cd infrastructure",
              "bun run deploy",
              "~~~",
              "",
              "Preview changes:",
              "~~~bash",
              "cd infrastructure",
              "bun run preview",
              "~~~",
              "",
              "Tear down resources:",
              "~~~bash",
              "cd infrastructure",
              "bun run destroy",
              "~~~">>
    ELSE <<>>

generateReadme(cfg) ==
    <<"# " \o cfg.projectName,
      "",
      "A monorepo project built with Nullstack, featuring Biome for linting and formatting.",
      "",
      "## Getting Started",
      "",
      "### Install dependencies",
      "",
      "~~~bash",
      "bun install",
      "~~~",
      "",
      "### Development",
      "",
      "Start the development server:",
      "",
      "~~~bash",
      "bun start",
      "~~~",
      "",
      "The landing page will be available at http://localhost:3000",
      "",
      "### Build",
      "",
      "Build the project:",
      "",
      "~~~bash",
      "bun run build",
      "~~~",
      "",
      "### Format Code",
      "",
      "Format code with Biome:",
      "",
      "~~~bash",
      "bun run fmt",
      "~~~",
      "",
      "## Project Structure",
      "">>
    \o ReadmeStructureItems(cfg)
    \o <<"", "## Tech Stack", "">>
    \o ReadmeTechStack(cfg)
    \o ReadmeBackendSection(cfg)
    \o <<"">>

\* a landing-page line that gives production a prefix like every other environment
LandingPageDomainLinePrefixed(env) == "    " \o env \o ": ~" \o env \o ".${DOMAIN_BASE}~"

\* environments.map(env => ...) of the domain tables
LandingPageDomainLine(env) ==
    IF env = "production" THEN "    " \o env \o ": DOMAIN_BASE"
    ELSE "    " \o env \o ": ~" \o env \o ".${DOMAIN_BASE}~"

PrefixedDomainLine(prefix, env) ==
    IF env = "production" THEN "    " \o env \o ": ~" \o prefix \o ".${DOMAIN_BASE}~"
    ELSE "    " \o env \o ": ~" \o prefix \o "-" \o env \o ".${DOMAIN_BASE}~"

DomainsObject(cfg) ==
    <<"  'landing-page': {">>
    \o WithCommas([i \in 1..Len(cfg.environments) |-> LandingPageDomainLine(cfg.environments[i])])
    \o <<"  },">>
    \o (IF cfg.includeApi
        THEN <<"  api: {">>
             \o WithCommas([i \in 1..Len(cfg.environments) |->
                               PrefixedDomainLine("api", cfg.environments[i])])
             \o <<"  },">>
        ELSE <<>>)
    \o (IF cfg.includeLambda
        THEN <<"  apigw: {">>
             \o WithCommas([i \in 1..Len(cfg.environments) |->
                               PrefixedDomainLine("apigw", cfg.environments[i])])
             \o <<"  },">>
        ELSE <<>>)

\* one table of resource names: the comment, the export and one line per environment
NameTable(comment, constant, kind, envs) ==
    <<"", comment, "export const " \o constant \o ": Record<Environment, string> = {">>
    \o WithCommas([i \in 1..Len(envs) |->
                      "  " \o envs[i] \o ": ~${PROJECT_NAME}-" \o kind \o "-" \o envs[i] \o "~"])
    \o <<"};">>

\* the name tables of every resource, whatever the features
AdditionalConstantsOfAll(cfg) ==
    NameTable("// DynamoDB table names per environment", "DYNAMODB_TABLES", "Table",
              cfg.environments)
    \o NameTable("// S3 bucket names per environment", "S3_STORAGE_BUCKETS", "storage",
                 cfg.environments)
    \o NameTable("// Cognito User Pool names per environment", "COGNITO_USER_POOLS",
                 "userpool", cfg.environments)
    \o NameTable("// Cognito User Pool Client names per environment",
                 "COGNITO_USER_POOL_CLIENTS", "userpool-client", cfg.environments)

AdditionalConstants(cfg) ==
    (IF cfg.includeDynamo
     THEN NameTable("// DynamoDB table names per environment", "DYNAMODB_TABLES", "Table",
                    cfg.environments)
     ELSE <<>>)
    \o (IF cfg.includeS3
        THEN NameTable("// S3 bucket names per environment", "S3_STORAGE_BUCKETS", "storage",
                       cfg.environments)
        ELSE <<>>)
    \o (IF cfg.includeCognito
        THEN NameTable("// Cognito User Pool names per environment", "COGNITO_USER_POOLS",
                       "userpool", cfg.environments)
             \o NameTable("// Cognito User Pool Client names per environment",
                          "COGNITO_USER_POOL_CLIENTS", "userpool-client", cfg.environments)
        ELSE <<>>)

generateConstantsFile(cfg) ==
    <<"// Project name",
      "export const PROJECT_NAME = '" \o cfg.projectName \o "';",
      "",
      "// Base domain (configure this for your project)",
      "export const DOMAIN_BASE = '" \o cfg.domain \o "';",
      "",
      "// Environment-specific configuration",
      "export const ENVIRONMENTS = {">>
    \o WithCommas([i \in 1..Len(cfg.environments) |->
                      "  " \o cfg.environments[i] \o ": '" \o cfg.environments[i] \o "'"])
    \o <<"} as const;",
         "",
         "export type Environment = "
            \o Join([i \in 1..Len(cfg.environments) |-> "'" \o cfg.environments[i] \o "'"], " | ")
            \o ";",
         "",
         "// Domain configuration by app and environment",
         "export const DOMAINS: Record<string, Record<Environment, string>> = {">>
    \o DomainsObject(cfg)
    \o <<"};">>
    \o AdditionalConstants(cfg)
    \o <<"", "">>

(***************************************************************************)
(* Text rewrites.  A text is Split(text, "\n"): the sequence of its lines, *)
(* ending with "" when the text ends with a newline.  A literal with       *)
(* newlines in it is given the same way, a position is <<line, column>>.   *)
(***************************************************************************)
EndsWith(s, p) == Len(s) >= Len(p) /\ SubSeq(s, Len(s) - Len(p) + 1, Len(s)) = p

\* the text a followed by the text b
Glue(a, b) == SubSeq(a, 1, Len(a) - 1) \o <<a[Len(a)] \o b[1]>> \o Tail(b)

NoMatch == <<0, 0>>

\* the literal pat of several lines occurs in content, starting in line i
MatchAt(content, pat, i) ==
    /\ i + Len(pat) - 1 <= Len(content)
    /\ EndsWith(content[i], pat[1])
    /\ \A j \in 2..(Len(pat) - 1) : content[i + j - 1] = pat[j]
    /\ StartsWith(content[i + Len(pat) - 1], pat[Len(pat)])

\* where the first occurrence of pat at or after pos starts, NoMatch if there is none
Find(content, pat, pos) ==
    LET Col(i) ==
            IF Len(pat) = 1 THEN IndexFrom(content[i], pat[1], IF i = pos[1] THEN pos[2] ELSE 1)
            ELSE IF MatchAt(content, pat, i)
                    /\ (i > pos[1] \/ Len(content[i]) - Len(pat[1]) + 1 >= pos[2])
                 THEN Len(content[i]) - Len(pat[1]) + 1
                 ELSE 0
        i == First({k \in pos[1]..Len(content) : Col(k) # 0})
    IN  IF i = 0 THEN NoMatch ELSE <<i, Col(i)>>

\* where a text ends that starts at start
End(text, start) ==
    IF Len(text) = 1 THEN <<start[1], start[2] + Len(text[1])>>
    ELSE <<start[1] + Len(text) - 1, Len(text[Len(text)]) + 1>>

\* content with rep in the place of what lies between from and to
Splice(content, from, to, rep) ==
    SubSeq(content, 1, from[1] - 1)
        \o Glue(Glue(<<SubSeq(content[from[1]], 1, from[2] - 1)>>, rep),
                <<SubSeq(content[to[1]], to[2], Len(content[to[1]]))>>
                    \o SubSeq(content, to[1] + 1, Len(content)))

\* content.replace(/pat/g, rep) for a literal pat, from pos on
RECURSIVE ReplaceFrom(_, _, _, _)
ReplaceFrom(content, pat, rep, pos) ==
    LET m == Find(content, pat, pos)
    IN  IF m = NoMatch THEN content
        ELSE CHOOSE result \in {ReplaceFrom(next, pat, rep, End(rep, m)) :
                                    next \in {Splice(content, m, End(pat, m), rep)}} : TRUE

ReplaceAll(content, pat, rep) == ReplaceFrom(content, pat, rep, <<1, 1>>)

\* content.replace(pat, rep) for a string pat: the first occurrence only
ReplaceFirst(content, pat, rep) ==
    LET m == Find(content, pat, <<1, 1>>)
    IN  IF m = NoMatch THEN content ELSE Splice(content, m, End(pat, m), rep)

\* content.replace(/start[\s\S]*?(?=stop)/g, ''), from pos on: the text from each start
\* up to the next stop, which stays
RECURSIVE RemoveUntilFrom(_, _, _, _)
RemoveUntilFrom(content, start, stop, pos) ==
    LET m == Find(content, start, pos)
        n == Find(content, stop, End(start, m))
    IN  IF m = NoMatch THEN content
        ELSE IF n = NoMatch THEN content
        ELSE CHOOSE result \in {RemoveUntilFrom(next, start, stop, m) :
                                    next \in {Splice(content, m, n, <<"">>)}} : TRUE

RemoveUntil(content, start, stop) == RemoveUntilFrom(content, start, stop, <<1, 1>>)

\* where the last literal of the chain ends when each is the first one after the one
\* before it, the first starting at or after pos; NoMatch if one of them is missing
RECURSIVE EndOfChain(_, _, _)
EndOfChain(content, chain, pos) ==
    LET m == Find(content, Head(chain), pos)
    IN  IF Len(chain) = 0 THEN pos
        ELSE IF m = NoMatch THEN NoMatch
        ELSE EndOfChain(content, Tail(chain), End(Head(chain), m))

\* content.replace(/a[\s\S]*?b[\s\S]*?c/, rep): the first span that the literals of the
\* chain open, continue and close
ReplaceThrough(content, chain, rep) ==
    LET m == Find(content, Head(chain), <<1, 1>>)
        n == EndOfChain(content, chain, <<1, 1>>)
    IN  IF n = NoMatch THEN content ELSE Splice(content, m, n, rep)

ComponentsMarker == "/* ---------- Components ---------- */"
BackendImport == "import { BackendComponent }"

\* content.replace(/\/\* -* Components -* \*\/[\s\S]*?import \{ BackendComponent \}.*\n\n/g, ''),
\* from pos on
RECURSIVE RemoveBackendImportFrom(_, _)
RemoveBackendImportFrom(content, pos) ==
    LET m == Find(content, <<ComponentsMarker>>, pos)
        e == End(<<ComponentsMarker>>, m)
        k == First({i \in e[1]..(Len(content) - 2) :
                        /\ content[i + 1] = ""
                        /\ IndexFrom(content[i], BackendImport, IF i = e[1] THEN e[2] ELSE 1) # 0})
    IN  IF m = NoMatch THEN content
        ELSE IF k = 0 THEN content
        ELSE CHOOSE result \in {RemoveBackendImportFrom(next, m) :
                                    next \in {Splice(content, m, <<k + 2, 1>>, <<"">>)}} : TRUE

RemoveBackendImport(content) == RemoveBackendImportFrom(content, <<1, 1>>)

(***************************************************************************)
(* copyDirectory (cli.js 588-785): the rewrites of single files.           *)
(***************************************************************************)
\* content.replace('{{PROJECT_NAME}}', projectName): the first occurrence only
ReplaceFirstProjectName(content, name) ==
    LET i == First({k \in 1..Len(content) : StrIncludes(content[k], Placeholder)})
        at == IndexFrom(content[i], Placeholder, 1)
    IN  IF i = 0 THEN content
        ELSE [content EXCEPT ![i] = SubSeq(@, 1, at - 1) \o name
                                        \o SubSeq(@, at + Len(Placeholder), Len(@))]

\* content.replace(/\{\{PROJECT_NAME\}\}/g, projectName)
ReplaceProjectName(content, name) ==
    [i \in 1..Len(content) |-> Join(Split(content[i], Placeholder), name)]

\* One content = content.replace(...) statement: a literal replaced everywhere or once,
\* a line removed, a span removed up to a lookahead or through its closing literal
Replace(pat, rep) == <<"replace", pat, rep>>
Once(pat, rep) == <<"once", pat, rep>>
Line(line) == Replace(<<line, "">>, <<"">>)
Until(start, stop) == <<"until", start, stop>>
Through(chain, rep) == <<"through", chain, rep>>
BackendImportSpan == <<"import", <<>>, <<>>>>

ApplyStep(step, content) ==
    CASE step[1] = "replace" -> ReplaceAll(content, step[2], step[3])
      [] step[1] = "once" -> ReplaceFirst(content, step[2], step[3])
      [] step[1] = "until" -> RemoveUntil(content, step[2], step[3])
      [] step[1] = "through" -> ReplaceThrough(content, step[2], step[3])
      [] step[1] = "import" -> RemoveBackendImport(content)

\* the statements applied one after the other
RECURSIVE ApplySteps(_, _)
ApplySteps(steps, content) ==
    IF Len(steps) = 0 THEN content
    ELSE CHOOSE result \in {ApplySteps(Tail(steps), next) :
                                next \in {ApplyStep(Head(steps), content)}} : TRUE

\* apigateway.ts without the dynamo import and prop (cli.js 612-616)
ApigatewaySteps ==
    <<Line("import type { DynamoResource } from './dynamo';"),
      Line("  dynamodb: DynamoResource;")>>

RewriteApigateway(content) == ApplySteps(ApigatewaySteps, content)

\* an export line that the template does not hold
DynamoTableExport == Line("export const dynamoTable = backend.dynamo.table.name;")

ApigwUrlExport == Line("export const apigwUrl = backend.apigateway.api.apiEndpoint;")
DynamoTableNameExport == Line("export const dynamoTableName = backend.dynamo.table.name;")
S3StorageBucketNameExport ==
    Line("export const s3StorageBucketName = backend.storage.bucket.bucket;")
CognitoUserPoolIdExport == Line("export const cognitoUserPoolId = backend.cognito.userpool.id;")
CognitoUserPoolClientIdExport ==
    Line("export const cognitoUserPoolClientId = backend.cognito.userpoolClient.id;")

\* the BackendComponent instantiation with and without the certificate
BackendWithCertificate ==
    <<"const backend = new BackendComponent(",
      "  ~backend-${environment}~,",
      "  {",
      "    environment,",
      "    certificateArn: certificate.acm.arn,",
      "  },",
      "  { dependsOn: [certificate.acm] },",
      ");">>

BackendWithoutCertificate ==
    <<"const backend = new BackendComponent(~backend-${environment}~, {",
      "  environment,",
      "});">>

\* infrastructure/src/index.ts (cli.js 672-706)
InfrastructureIndexSteps(cfg) ==
    IF ~cfg.includeLambda /\ ~cfg.includeDynamo /\ ~cfg.includeS3 /\ ~cfg.includeCognito
    THEN <<BackendImportSpan,
           Until(<<"/* ---------- Backend ---------- */">>, <<"/* ---------- Exports">>),
           ApigwUrlExport, DynamoTableNameExport, S3StorageBucketNameExport,
           CognitoUserPoolIdExport, CognitoUserPoolClientIdExport>>
    ELSE (IF ~cfg.includeLambda
          THEN <<ApigwUrlExport, Replace(BackendWithCertificate, BackendWithoutCertificate)>>
          ELSE <<>>)
         \o (IF ~cfg.includeDynamo THEN <<DynamoTableNameExport>> ELSE <<>>)
         \o (IF ~cfg.includeS3 THEN <<S3StorageBucketNameExport>> ELSE <<>>)
         \o (IF ~cfg.includeCognito
             THEN <<CognitoUserPoolIdExport, CognitoUserPoolClientIdExport>>
             ELSE <<>>)

RewriteInfrastructureIndex(content, cfg) == ApplySteps(InfrastructureIndexSteps(cfg), content)

\* constantsToRemove (cli.js 711-714)
ConstantsToRemove(cfg) ==
    (IF ~cfg.includeDynamo THEN <<"DYNAMODB_TABLES">> ELSE <<>>)
    \o (IF ~cfg.includeS3 THEN <<"S3_BUCKETS">> ELSE <<>>)
    \o (IF ~cfg.includeCognito THEN <<"COGNITO_USER_POOLS", "COGNITO_USER_POOL_CLIENTS">>
        ELSE <<>>)

\* constantsToRemove.forEach(...) (cli.js 717-722)
RECURSIVE RemoveConstants(_)
RemoveConstants(constants) ==
    IF Len(constants) = 0 THEN <<>>
    ELSE <<Line("  " \o Head(constants) \o ","),
           Replace(<<",", "  " \o Head(constants)>>, <<"">>)>>
            \o RemoveConstants(Tail(constants))

\* the removal of the header of a section alone
RemoveSectionHeader(header) == Line("    /* ---------- " \o header \o " ---------- */")

\* the section of backend.ts that a header opens, up to the next section
RemoveSection(header) ==
    Until(<<"", "", "    /* ---------- " \o header \o " ---------- */">>,
          <<"", "", "    /* ----------">>)

ResourceNamesComment == "    /* ---------- Resource Names ---------- */"
TableNameLine == "    const tableName = DYNAMODB_TABLES[environment as Environment];"

\* Remove DynamoDB if not included (cli.js 725-731)
RemoveDynamo ==
    <<Line("import { DynamoResource } from '../resources/dynamo';"),
      Line("  public readonly dynamo: DynamoResource;"),
      Replace(<<ResourceNamesComment, TableNameLine, "">>, <<ResourceNamesComment, "">>),
      Line(TableNameLine),
      RemoveSection("DynamoDB")>>

\* Remove S3 if not included (cli.js 734-739)
RemoveS3 ==
    <<Line("import { S3StorageResource } from '../resources/s3-storage';"),
      Line("  public readonly storage: S3StorageResource;"),
      Line("    const bucketName = S3_BUCKETS[environment as Environment];"),
      RemoveSection("S3 Storage")>>

\* Remove Cognito if not included (cli.js 742-748)
RemoveCognito ==
    <<Line("import { CognitoResource } from '../resources/cognito';"),
      Line("  public readonly cognito: CognitoResource;"),
      Line("    const userpoolName = COGNITO_USER_POOLS[environment as Environment];"),
      Line("    const userpoolClientName = COGNITO_USER_POOL_CLIENTS[environment as Environment];"),
      RemoveSection("Cognito")>>

\* Remove API Gateway if not included (cli.js 751-760)
RemoveApigateway ==
    <<Line("import { ApigatewayResource } from '../resources/apigateway';"),
      Line("import { DNSResource } from '../resources/dns';"),
      Line("  DOMAIN_BASE,"),
      Line("  DOMAINS,"),
      Line("  public readonly apigateway: ApigatewayResource;"),
      Replace(<<"  /**", "   * ACM certificate ARN for API Gateway custom domain", "   */",
                "  certificateArn: string;", "">>,
              <<"">>),
      Replace(<<", certificateArn">>, <<"">>),
      Line("    const apigwDomain = DOMAINS.apigw[environment as Environment];"),
      Until(<<"", "", "    /* ---------- API Gateway + Lambdas ---------- */">>, <<"", "  }">>)>>

\* infrastructure/src/components/backend.ts (cli.js 709-765)
BackendSteps(cfg) ==
    RemoveConstants(ConstantsToRemove(cfg))
    \o (IF ~cfg.includeDynamo THEN RemoveDynamo ELSE <<>>)
    \o (IF ~cfg.includeS3 THEN RemoveS3 ELSE <<>>)
    \o (IF ~cfg.includeCognito THEN RemoveCognito ELSE <<>>)
    \o (IF ~cfg.includeLambda THEN RemoveApigateway
        ELSE IF ~cfg.includeDynamo THEN <<Line("        dynamodb: this.dynamo,")>>
        ELSE <<>>)

RewriteBackend(content, cfg) == ApplySteps(BackendSteps(cfg), content)

\* the line of a manifest that holds the script named key
IsScript(line, key) == StartsWith(line, "    \"" \o key \o "\": ")

\* delete pkg.scripts[key], as JSON.stringify prints the manifest afterwards
RECURSIVE DeleteScript(_, _)
DeleteScript(content, key) ==
    IF Len(content) = 0 THEN content
    ELSE IF Len(content) >= 2 /\ IsScript(content[2], key) /\ ~EndsWith(content[2], ",")
         THEN <<IF EndsWith(content[1], ",") THEN SubSeq(content[1], 1, Len(content[1]) - 1)
                ELSE content[1]>>
                \o DeleteScript(SubSeq(content, 3, Len(content)), key)
    ELSE IF IsScript(content[1], key) THEN DeleteScript(Tail(content), key)
    ELSE <<content[1]>> \o DeleteScript(Tail(content), key)

\* pkg.scripts[key] = value, as JSON.stringify prints the manifest afterwards
SetScript(content, key, value) ==
    [i \in 1..Len(content) |->
        IF IsScript(content[i], key)
        THEN "    \"" \o key \o "\": \"" \o value \o "\""
                \o (IF EndsWith(content[i], ",") THEN "," ELSE "")
        ELSE content[i]]

\* a manifest written back as it was read
KeepPackageJson(content, cfg) == content

\* package.json (cli.js 768-780); the manifests of the template are printed the way
\* JSON.stringify(pkg, null, 2) + '\n' prints them
RewritePackageJson(content, cfg) ==
    IF ~cfg.includeLambda /\ (\E i \in 1..Len(content) : content[i] = "  \"scripts\": {")
    THEN SetScript(DeleteScript(content, "build:lambdas"), "build", "bun run build:website")
    ELSE content

(***************************************************************************)
(* copyDirectory (cli.js 588-785): the walk.  src is a directory of the    *)
(* template by its path relative to templateRoot, dest the directory it is *)
(* copied to, d the file system before and the result the one after.       *)
(***************************************************************************)
\* fs.readFileSync(srcPath, 'utf8'): the lines of the file and the "" after the last newline
ReadFileSync(relativePath) == TemplateContent[relativePath] \o <<"">>

\* environments.forEach(env => ...) of the Pulumi branch (cli.js 664-667)
RECURSIVE WritePulumiEnvConfigs(_, _, _, _)
WritePulumiEnvConfigs(dir, cfg, envs, d) ==
    IF Len(envs) = 0 THEN d
    ELSE WritePulumiEnvConfigs(dir, cfg, Tail(envs),
            WriteFileSync(d, PathJoin(dir, "Pulumi." \o Head(envs) \o ".yaml"),
                          generatePulumiEnvConfig(cfg.projectName, Head(envs))))

\* the content of a copied file before the Pulumi branch (cli.js 645-658)
GeneratedContent(src, name, srcPath, cfg) ==
    LET replaced == ReplaceProjectName(ReadFileSync(PathJoin(src, name)), cfg.projectName)
        constants == IF name = "index.ts" /\ StrIncludes(srcPath, "packages/constants/src")
                     THEN generateConstantsFile(cfg)
                     ELSE replaced
    IN  IF name = "README.md"
            /\ srcPath = PathJoin(PathJoin(templateDir, src), "README.md")
        THEN generateReadme(cfg)
        ELSE constants

\* the content of a copied file after the Pulumi branch (cli.js 672-780)
RewrittenContent(src, name, srcPath, cfg, content) ==
    LET index == IF name = "index.ts" /\ StrIncludes(srcPath, "infrastructure/src")
                    /\ ~StrIncludes(srcPath, "infrastructure/src/components")
                    /\ ~StrIncludes(srcPath, "infrastructure/src/resources")
                 THEN RewriteInfrastructureIndex(content, cfg)
                 ELSE content
        backend == IF name = "backend.ts" /\ StrIncludes(srcPath, "infrastructure/src/components")
                   THEN RewriteBackend(index, cfg)
                   ELSE index
    IN  IF name = "package.json"
            /\ srcPath = PathJoin(PathJoin(templateDir, src), "package.json")
        THEN RewritePackageJson(backend, cfg)
        ELSE backend

\* the lambda packages alone, without the infrastructure resources
LambdaSpecificPackage(relativePath) == StartsWith(relativePath, "packages/lambdas")

\* Skip lambda-specific files (cli.js 601-605)
LambdaSpecific(relativePath) ==
    \/ StartsWith(relativePath, "packages/lambdas")
    \/ StrIncludes(relativePath, "infrastructure/src/resources/apigateway")
    \/ StrIncludes(relativePath, "infrastructure/src/resources/lambdas")

\* Skip dynamo-specific files (cli.js 624)
DynamoSpecific(relativePath) == StrIncludes(relativePath, "infrastructure/src/resources/dynamo")

\* Skip S3 storage-specific files (cli.js 631)
S3Specific(relativePath) == StrIncludes(relativePath, "infrastructure/src/resources/s3-storage")

\* Skip Cognito-specific files (cli.js 638)
CognitoSpecific(relativePath) ==
    StrIncludes(relativePath, "infrastructure/src/resources/cognito")

RECURSIVE copyDirectory(_, _, _, _)
RECURSIVE CopyEntries(_, _, _, _, _)

\* one pass of the loop over the entries (cli.js 593-784)
CopyEntry(src, dest, cfg, name, d) ==
    LET relativePath == PathJoin(src, name)
        srcPath == PathJoin(templateDir, relativePath)
        destPath == PathJoin(dest, name)
        content == GeneratedContent(src, name, srcPath, cfg)
    IN  IF ~cfg.includeLambda /\ LambdaSpecific(relativePath)
        THEN d
        ELSE IF cfg.includeLambda /\ ~cfg.includeDynamo /\ name = "apigateway.ts"
                /\ StrIncludes(srcPath, "infrastructure/src/resources")
        THEN WriteFileSync(d, destPath, RewriteApigateway(ReadFileSync(relativePath)))
        ELSE IF ~cfg.includeDynamo /\ DynamoSpecific(relativePath)
        THEN d
        ELSE IF ~cfg.includeS3 /\ S3Specific(relativePath)
        THEN d
        ELSE IF ~cfg.includeCognito /\ CognitoSpecific(relativePath)
        THEN d
        ELSE IF IsDirectory(relativePath)
        THEN copyDirectory(relativePath, destPath, cfg, d)
        ELSE IF name = "Pulumi.yaml" /\ StrIncludes(srcPath, "infrastructure")
        THEN WritePulumiEnvConfigs(dest, cfg, cfg.environments,
                                   WriteFileSync(d, destPath, content))
        ELSE WriteFileSync(d, destPath, RewrittenContent(src, name, srcPath, cfg, content))

CopyEntries(src, dest, cfg, entries, d) ==
    IF Len(entries) = 0 THEN d
    ELSE CHOOSE result \in {CopyEntries(src, dest, cfg, Tail(entries), next) :
                                next \in {CopyEntry(src, dest, cfg, Head(entries), d)}} : TRUE

copyDirectory(src, dest, cfg, d) ==
    CopyEntries(src, dest, cfg, TemplateDirs[src], MkdirSync(d, dest))

(***************************************************************************)
(* cloneAndConfigureElysiaApi (cli.js 419-586).  The repository cloned is  *)
(* given by the files, keys and lines that the function reads and matches. *)
(***************************************************************************)
BunMococa ==
    (".git/HEAD" :> <<"ref: refs/heads/main", "">>)
    @@ (".env.example" :> <<"ENV=\"development\" # or \"production\"", "">>)
    @@ ("README.md" :> <<"# bun_app", "">>)
    @@ ("docker-compose.yml" :> <<"    container_name: bun_app", "">>)
    @@ ("package.json" :>
            <<"{",
              "  \"name\": \"bun-mococa\",",
              "  \"scripts\": {",
              "    \"dev\": \"bun run --watch src/main.ts\",",
              "    \"fmt\": \"biome format --write\"",
              "  }",
              "}",
              "">>)
    @@ ("src/handlers/public/auth.ts" :>
            <<"class LoginError extends Error {",
              "}",
              "",
              "  /** Login with email + password */",
              "  .post('/login', async ({ body }) => {",
              "  }, { body: schemas.login })",
              "  /** Login with Google */",
              "">>)
    @@ ("src/main.ts" :>
            <<"import { services } from './services';",
              "async function createApp() {",
              "  const app = new Elysia(",
              "    .use(cors({",
              "      origin: ['http://localhost:3000'],",
              "">>)

\* path.dirname(p)
Dirname(p) == LET parts == Split(p, "/") IN Join(SubSeq(parts, 1, Len(parts) - 1), "/")

\* git clone git@github.com:mococa/bun-mococa.git apiPath, when it succeeds
GitClone(apiPath, d) ==
    [dirs |-> d.dirs \cup UNION {Ancestors(Dirname(PathJoin(apiPath, p))) : p \in DOMAIN BunMococa},
     files |-> [q \in {PathJoin(apiPath, p) : p \in DOMAIN BunMococa} |->
                    BunMococa[SubSeq(q, Len(apiPath) + 2, Len(q))]] @@ d.files]

\* pkg.name = value, as JSON.stringify prints the manifest afterwards
SetName(content, value) ==
    [i \in 1..Len(content) |->
        IF StartsWith(content[i], "  \"name\": ")
        THEN "  \"name\": \"" \o value \o "\"" \o (IF EndsWith(content[i], ",") THEN "," ELSE "")
        ELSE content[i]]

\* Update main.ts with constants import and CORS configuration (cli.js 446-468)
MainSteps(name) ==
    <<Once(<<"import { services } from './services';">>,
           <<"import { services } from './services';",
             "import { DOMAINS, type Environment } from '@" \o name \o "/constants';">>),
      Once(<<"async function createApp() {", "  const app = new Elysia(">>,
           <<"async function createApp() {",
             "  const environment = (process.env.ENVIRONMENT || 'production') as Environment;",
             "  const allowedOrigins = ['http://localhost:3000', ...Object.values(DOMAINS).map(envDomains => ~https://${envDomains[environment]}~)];",
             "",
             "  const app = new Elysia(">>),
      Through(<< <<".use(cors({", "      origin: [">>, <<"],">> >>,
              <<".use(cors({", "      origin: allowedOrigins,">>)>>

\* the span of an endpoint of auth.ts: its comment, its route and its schema
Endpoint(comment, route, schema) ==
    Through(<< <<"/** " \o comment>>, <<".post('/" \o route \o "'">>, schema >>, <<"">>)

ErrorClass(name) == Through(<< <<"class " \o name>>, <<"}", "", "">> >>, <<"">>)

Schema(comment, declaration, close) ==
    Through(<< <<"/**", " * " \o comment>>, <<declaration>> >> \o close, <<"">>)

\* Remove Cognito-related auth endpoints (cli.js 495-579)
AuthSteps ==
    <<Endpoint("Login with email + password */", "login", <<"}, { body: schemas.login })", "">>),
      Endpoint("Register with email + password */", "register",
               <<"}, { body: schemas.register})", "">>),
      Endpoint("Confirm email with code", "confirm-email",
               <<"}, { body: schemas.confirmEmail })", "">>),
      Endpoint("Resend confirmation code", "resend-confirmation-code",
               <<"}, { body: schemas.resendConfirmationCode })", "">>),
      Endpoint("Initiate forgot password", "forgot-password",
               <<"}, { body: schemas.forgotPassword })", "">>),
      Endpoint("Complete password reset", "reset-password",
               <<"}, { body: schemas.resetPassword });">>),
      ErrorClass("UserNotConfirmed"),
      ErrorClass("CodeMismatch"),
      ErrorClass("UserAlreadyExists"),
      ErrorClass("RegistrationError"),
      ErrorClass("LoginError"),
      Schema("Email validation schema",
             "const emailSchema = t.String({format: 'email', error: 'Invalid email format' });",
             << <<"", "", "">> >>),
      Schema("Strong password validation schema", "const passwordSchema = t.String({minLength: 8",
             << <<"});", "", "">> >>),
      Schema("6-digit numeric confirmation code", "const codeSchema = t.String({minLength: 6",
             << <<"});", "", "">> >>),
      Through(<< <<"const schemas = {">>, <<"login: t.Object({">>, <<"}),">>,
                 <<"register: t.Object({">>, <<"}),">>, <<"confirmEmail:">>, <<"}),">>,
                 <<"forgotPassword:">>, <<"}),">>, <<"resendConfirmationCode:">>, <<"}),">>,
                 <<"resetPassword:">>, <<"}),">>, <<"}">> >>,
              <<"">>)>>

\* the file p of d rewritten by the steps
Rewritten(d, p, steps) == WriteFileSync(d, p, ApplySteps(steps, d.files[p]))

\* if (fs.existsSync(p)) { ... }
RewrittenIfExists(d, p, steps) == IF ExistsSync(d, p) THEN Rewritten(d, p, steps) ELSE d

\* the body of the try block, after a clone that succeeded
cloneAndConfigureElysiaApi(cfg, d) ==
    LET apiPath == PathJoin(cfg.targetPath, "apps/api")
        File(p) == PathJoin(apiPath, p)
        cloned == RmSync(GitClone(apiPath, d), File(".git"))
        pkg == WriteFileSync(cloned, File("package.json"),
                    DeleteScript(SetName(cloned.files[File("package.json")],
                                         "@" \o cfg.projectName \o "/api"),
                                 "fmt"))
        main == Rewritten(pkg, File("src/main.ts"), MainSteps(cfg.projectName))
        env == Rewritten(main, File(".env.example"),
                    <<Once(<<"ENV=\"development\" # or \"production\"">>,
                           <<"ENV=\"development\" # or \"production\"",
                             "ENVIRONMENT=\"development\" # development, staging, production">>)>>)
        docker == RewrittenIfExists(env, File("docker-compose.yml"),
                    <<Replace(<<"bun_app">>, <<cfg.projectName \o "_api">>)>>)
        readme == RewrittenIfExists(docker, File("README.md"),
                    <<Replace(<<"bun_app">>, <<cfg.projectName>>)>>)
    IN  IF ~cfg.includeCognito
        THEN Rewritten(readme, File("src/handlers/public/auth.ts"), AuthSteps)
        ELSE readme

(***************************************************************************)
(* The runs explored: command lines, file systems, user answers.           *)
(***************************************************************************)
\* every sequence of at most n elements of S, each at most once
RECURSIVE SeqsUpTo(_, _)
SeqsUpTo(S, n) ==
    IF n = 0 THEN {<<>>}
    ELSE LET shorter == SeqsUpTo(S, n - 1)
         IN  shorter
                \cup UNION {{Append(s, x) : x \in S \ {s[i] : i \in 1..Len(s)}} : s \in shorter}

\* the working directory, empty and in use
EmptyDisk == [dirs |-> {""}, files |-> <<>>]

UsedDisk ==
    [dirs |-> {"", "my-app", "acme"},
     files |-> ("README.md" :> <<"# notes", "">>)
               @@ ("notes.txt" :> <<"keep", "">>)
               @@ ("my-app/README.md" :> <<"# mine", "">>)
               @@ ("acme/main.js" :> <<"run();", "">>)]

Disks == {EmptyDisk, UsedDisk}

\* the tokens of the command lines of Spec; a command line of Spec carries a signal for
\* the features, those without one are the command lines of SpecResolve
Args == {"my-app", ".", "--skip", "--full", "-c", "--s3"}

HasSignal(args) == \E i \in 1..Len(args) : args[i] \in {"--skip", "--full", "--s3"}

\* the tokens of the command lines of SpecResolve
ResolveArgs ==
    {"my-app", "s3", "--s3", "--api", "--skip", "--full", "--except", "--except=s3", "-e"}

\* the command lines of SpecWalk: a name, --skip and the flags of a set of features
WalkNames == {"acme", "My App"}
WalkFeatures == <<"lambda", "dynamo", "s3", "cognito">>

RECURSIVE FlagsOf(_, _)
FlagsOf(features, S) ==
    IF Len(features) = 0 THEN <<>>
    ELSE (IF Head(features) \in S THEN <<"--" \o Head(features)>> ELSE <<>>)
            \o FlagsOf(Tail(features), S)

WalkArgs ==
    {<<name, "--skip">> \o FlagsOf(WalkFeatures, S) :
        name \in WalkNames, S \in SUBSET {WalkFeatures[i] : i \in 1..Len(WalkFeatures)}}

\* config before main() resolved it
NoConfig ==
    [projectName |-> Null, domain |-> Null, targetDir |-> Null, targetPath |-> Null,
     includeApi |-> FALSE, apiType |-> Null, includeCognito |-> FALSE,
     includeLambda |-> FALSE, includeDynamo |-> FALSE, includeS3 |-> FALSE,
     includeEnvironments |-> FALSE, environments |-> <<>>]

\* no confirmation asked
NoConfirm == [name |-> Null, value |-> Null]

\* what the user answers to a confirmation: yes, no, or cancels the prompt
ConfirmAnswers == {"true", "false", Null}

InitWith(args, disks) ==
    /\ argv \in args
    /\ disk0 \in disks
    /\ disk = disk0
    /\ pc = "main"
    /\ questions = <<>>
    /\ response = <<>>
    /\ config = NoConfig
    /\ confirm = NoConfirm
    /\ removed = FALSE
    /\ exitCode = 0

Init == InitWith({args \in SeqsUpTo(Args, MaxArgs) : HasSignal(args)}, Disks)

InitResolve == InitWith(SeqsUpTo(ResolveArgs, MaxArgs), {EmptyDisk})

InitWalk == InitWith(WalkArgs, Disks)

(***************************************************************************)
(* main() (cli.js 78-416), one action per stretch between two awaits.      *)
(***************************************************************************)
\* process.exit(1)
Exit ==
    /\ pc' = "exit"
    /\ exitCode' = 1

\* cli.js 79-295: the flags are read and the question list is built
ParseArgs ==
    /\ pc = "main"
    /\ questions' = BuildQuestions
    /\ pc' = "prompts"
    /\ UNCHANGED <<argv, response, config, disk0, disk, confirm, removed, exitCode>>

\* cli.js 297: the prompt collaborator returns the answers
Prompt ==
    /\ pc = "prompts"
    /\ \E values \in Responses(questions, <<>>) : response' = values
    /\ pc' = "resolve"
    /\ UNCHANGED <<argv, questions, config, disk0, disk, confirm, removed, exitCode>>

\* the resolution without the test of the project name
ResolveWithoutNameCheck ==
    /\ pc = "resolve"
    /\ config' = ResolvedConfig
    /\ pc' = "target"
    /\ UNCHANGED <<argv, questions, response, disk0, disk, confirm, removed, exitCode>>

\* cli.js 299-352: the project name or exit 1, then the resolved values
Resolve ==
    /\ pc = "resolve"
    /\ IF ~Truthy(rawProjectName)
       THEN Exit /\ UNCHANGED config
       ELSE /\ config' = ResolvedConfig
            /\ pc' = "target"
            /\ UNCHANGED exitCode
    /\ UNCHANGED <<argv, questions, response, disk0, disk, confirm, removed>>

\* the overwrite prompt left out of the runs with --skip
NeedsOverwriteUnlessSkip(cfg, d) ==
    ExistsSync(d, cfg.targetPath) /\ cfg.targetDir # "." /\ ~skipPrompts

\* fs.existsSync(targetPath) && targetDir !== '.' (cli.js 355)
NeedsOverwrite(cfg, d) == ExistsSync(d, cfg.targetPath) /\ cfg.targetDir # "."

\* targetDir === '.' && fs.existsSync(targetPath) && files.length > 0 (cli.js 372-374)
NeedsProceed(cfg, d) ==
    cfg.targetDir = "." /\ ExistsSync(d, cfg.targetPath) /\ HasEntries(d, cfg.targetPath)

\* cli.js 355-369: the overwrite prompt, then exit 1 or the target directory removed
Overwrite ==
    /\ pc = "target"
    /\ NeedsOverwrite(config, disk)
    /\ \E overwrite \in ConfirmAnswers :
        /\ confirm' = [name |-> "overwrite", value |-> overwrite]
        /\ IF overwrite # "true"
           THEN Exit /\ UNCHANGED <<disk, removed>>
           ELSE /\ disk' = RmSync(disk, config.targetPath)
                /\ removed' = TRUE
                /\ pc' = "copy"
                /\ UNCHANGED exitCode
    /\ UNCHANGED <<argv, questions, response, config, disk0>>

\* cli.js 372-387: the proceed prompt for a current directory that has files
Proceed ==
    /\ pc = "target"
    /\ ~NeedsOverwrite(config, disk)
    /\ NeedsProceed(config, disk)
    /\ \E proceed \in ConfirmAnswers :
        /\ confirm' = [name |-> "proceed", value |-> proceed]
        /\ IF proceed # "true"
           THEN Exit
           ELSE pc' = "copy" /\ UNCHANGED exitCode
    /\ UNCHANGED <<argv, questions, response, config, disk0, disk, removed>>

\* cli.js 355-387 when neither prompt is due
NoConfirmation ==
    /\ pc = "target"
    /\ ~NeedsOverwrite(config, disk)
    /\ ~NeedsProceed(config, disk)
    /\ pc' = "copy"
    /\ UNCHANGED <<argv, questions, response, config, disk0, disk, confirm, removed, exitCode>>

\* cli.js 391-393: the template is copied
CopyTemplate ==
    /\ pc = "copy"
    /\ disk' = copyDirectory("", config.targetPath, config, disk)
    /\ pc' = IF config.includeApi /\ config.apiType = "elysia" THEN "clone" ELSE "finish"
    /\ UNCHANGED <<argv, questions, response, config, disk0, confirm, removed, exitCode>>

\* what cloneAndConfigureElysiaApi comes to: the API is configured, git clone throws, or a
\* statement after the clone throws (the first that can is fs.readFileSync, cli.js 434)
CloneOutcomes == {"configured", "clone fails", "rewrite fails"}

\* a failure of the clone after which the target directory is removed
CloneApiWithCleanup ==
    /\ pc = "clone"
    /\ \E outcome \in CloneOutcomes :
        IF outcome = "configured" /\ ~HasEntries(disk, PathJoin(config.targetPath, "apps/api"))
        THEN /\ disk' = cloneAndConfigureElysiaApi(config, disk)
             /\ pc' = "finish"
             /\ UNCHANGED exitCode
        ELSE Exit /\ disk' = RmSync(disk, config.targetPath)
    /\ UNCHANGED <<argv, questions, response, config, disk0, confirm, removed>>

\* cli.js 396-399: the API repository is cloned and configured, or a statement of the try
\* block throws (cli.js 422-585), the error is thrown again and main().catch exits with 1
\* (cli.js 1017-1020)
CloneApi ==
    /\ pc = "clone"
    /\ \E outcome \in CloneOutcomes :
        LET apiPath == PathJoin(config.targetPath, "apps/api")
            cloned == ~HasEntries(disk, apiPath)
        IN  IF outcome = "configured" /\ cloned
            THEN /\ disk' = cloneAndConfigureElysiaApi(config, disk)
                 /\ pc' = "finish"
                 /\ UNCHANGED exitCode
            ELSE IF outcome = "rewrite fails" /\ cloned
            THEN /\ disk' = RmSync(GitClone(apiPath, disk), PathJoin(apiPath, ".git"))
                 /\ Exit
            ELSE Exit /\ UNCHANGED disk
    /\ UNCHANGED <<argv, questions, response, config, disk0, confirm, removed>>

\* cli.js 401-416: the summary is printed and main() returns
Finish ==
    /\ pc = "finish"
    /\ pc' = "done"
    /\ UNCHANGED <<argv, questions, response, config, disk0, disk, confirm, removed, exitCode>>

Next ==
    \/ ParseArgs
    \/ Prompt
    \/ Resolve
    \/ Overwrite
    \/ Proceed
    \/ NoConfirmation
    \/ CopyTemplate
    \/ CloneApi
    \/ Finish

Spec == Init /\ [][Next]_vars

\* option resolution alone, over the command lines of ResolveArgs
NextResolve ==
    \/ ParseArgs
    \/ Prompt
    \/ Resolve

SpecResolve == InitResolve /\ [][NextResolve]_vars

\* the walk for every set of features, without prompts
NextWalk ==
    \/ ParseArgs
    \/ Prompt
    \/ Resolve
    \/ Overwrite
    \/ NoConfirmation
    \/ CopyTemplate
    \/ Finish

SpecWalk == InitWalk /\ [][NextWalk]_vars

(***************************************************************************)
(* The properties of the walk (specification SpecWalk).                    *)
(***************************************************************************)
\* the template has been copied to config.targetPath
Copied == pc \in {"clone", "finish", "done"}

\* every path of the template: its directories and its files
TemplatePaths == (DOMAIN TemplateDirs \ {""}) \cup DOMAIN TemplateContent

\* the path prefixes a feature owns
OwnedPrefixes(feature) ==
    CASE feature = "lambda" -> {"packages/lambdas", "infrastructure/src/resources/apigateway",
                                "infrastructure/src/resources/lambdas"}
      [] feature = "dynamo" -> {"infrastructure/src/resources/dynamo"}
      [] feature = "s3" -> {"infrastructure/src/resources/s3-storage"}
      [] feature = "cognito" -> {"infrastructure/src/resources/cognito"}

\* the features of the walk that config disables
DisabledFeatures ==
    {f \in {"lambda", "dynamo", "s3", "cognito"} :
        CASE f = "lambda" -> ~config.includeLambda
          [] f = "dynamo" -> ~config.includeDynamo
          [] f = "s3" -> ~config.includeS3
          [] f = "cognito" -> ~config.includeCognito}

\* a prefix owned by a disabled feature is a prefix of p
OwnedByDisabled(p) ==
    \E f \in DisabledFeatures : \E prefix \in OwnedPrefixes(f) :
        Len(prefix) <= Len(p) /\ SubSeq(p, 1, Len(prefix)) = prefix

\* the path of the output tree a template path is copied to
Output(p) == PathJoin(config.targetPath, p)

\* C1: after the walk a template path is in the output tree if and only if no path
\* prefix owned by a disabled feature is a prefix of it: an excluded directory
\* contributes none of its descendants and no other path is dropped.
C1_WalkKeepsExactlyTheUnownedPaths ==
    Copied => \A p \in TemplatePaths : ExistsSync(disk, Output(p)) <=> ~OwnedByDisabled(p)

\* a walk with lambda disabled and s3 enabled: the lambda package and its descendants are
\* absent, the s3 resource and the unowned files are present
C1_Witness ==
    /\ pc = "done"
    /\ ~config.includeLambda /\ config.includeS3 /\ ~config.includeDynamo
    /\ ~ExistsSync(disk, Output("packages/lambdas"))
    /\ ~ExistsSync(disk, Output("packages/lambdas/src/example/post.ts"))
    /\ ~ExistsSync(disk, Output("infrastructure/src/resources/apigateway.ts"))
    /\ ~ExistsSync(disk, Output("infrastructure/src/resources/dynamo.ts"))
    /\ ExistsSync(disk, Output("infrastructure/src/resources/s3-storage.ts"))
    /\ ExistsSync(disk, Output("packages/ui/package.json"))

\* the template files the walk copied
CopiedFiles == {p \in DOMAIN TemplateContent : Output(p) \in DOMAIN disk.files}

\* the template files the walk copies with the substitution alone
PlainFiles ==
    {".prompt/NULLSTACK.md", "apps/landing-page/server.js",
     "apps/landing-page/src/Application.jsx", "apps/landing-page/src/Home.jsx",
     "apps/landing-page/tailwind.config.js", "apps/landing-page/webpack.config.js",
     "biome.json", "infrastructure/src/resources/certificate.ts",
     "infrastructure/src/resources/cognito.ts", "infrastructure/src/resources/dns.ts",
     "infrastructure/src/resources/dynamo.ts",
     "infrastructure/src/resources/lambdas/example/index.ts",
     "infrastructure/src/resources/lambdas/index.ts",
     "infrastructure/src/resources/lambdas/lambda/index.ts",
     "infrastructure/src/resources/s3-storage.ts",
     "infrastructure/src/resources/s3-website.ts", "packages/lambdas/build.js",
     "packages/lambdas/src/common/index.ts", "packages/lambdas/src/example/post.ts"}

\* a line with every occurrence of the token replaced by the project name
Substituted(line) == Join(Split(line, Placeholder), config.projectName)

\* C2: after the walk no copied file holds the token {{PROJECT_NAME}}, the files that get a
\* structural rewrite included, and in a file copied with the substitution alone every
\* occurrence of the token is replaced by the resolved project name.
C2_NoPlaceholderInOutput ==
    Copied =>
        \A p \in CopiedFiles :
            /\ \A i \in 1..Len(disk.files[Output(p)]) :
                    ~StrIncludes(disk.files[Output(p)][i], Placeholder)
            /\ p \in PlainFiles =>
                    disk.files[Output(p)]
                        = [i \in 1..Len(TemplateContent[p]) |-> Substituted(TemplateContent[p][i])]
                            \o <<"">>

\* a walk with lambda enabled and dynamo disabled: the API-gateway resource is rewritten
\* and the landing-page server, which holds the token, carries the project name
C2_Witness ==
    /\ pc = "done"
    /\ config.includeLambda /\ ~config.includeDynamo
    /\ config.projectName = "my-app"
    /\ Output("infrastructure/src/resources/apigateway.ts") \in DOMAIN disk.files
    /\ \E i \in 1..Len(ServerJs) :
            /\ StrIncludes(ServerJs[i], Placeholder)
            /\ StrIncludes(disk.files[Output("apps/landing-page/server.js")][i], "my-app")

(***************************************************************************)
(* The properties of option resolution (specification SpecResolve).        *)
(***************************************************************************)
\* main() resolved the options
Resolved == config # NoConfig

\* the flag --f of a feature is on the command line
Explicit(f) == \E i \in 1..Len(argv) : argv[i] = "--" \o f

\* the feature is named by an --except=<f>, --except <f> or -e <f> entry
Excepted(f) ==
    \E i \in 1..Len(argv) :
        \/ argv[i] = "--except=" \o f
        \/ argv[i] \in {"--except", "-e"} /\ i < Len(argv) /\ argv[i + 1] = f

\* the resolved value of a feature
Enabled(f) ==
    CASE f = "api" -> config.includeApi
      [] f = "cognito" -> config.includeCognito
      [] f = "lambda" -> config.includeLambda
      [] f = "dynamo" -> config.includeDynamo
      [] f = "s3" -> config.includeS3
      [] f = "environments" -> config.includeEnvironments

\* the confirm question of a feature
ConfirmQuestion(f) ==
    CASE f = "api" -> "wantApi"
      [] f = "cognito" -> "wantCognito"
      [] f = "lambda" -> "wantLambda"
      [] f = "dynamo" -> "wantDynamo"
      [] f = "s3" -> "wantS3"
      [] f = "environments" -> "wantEnvironments"

\* C3: an explicit feature flag has the highest precedence: when --f is on the command
\* line the feature f resolves to enabled, whatever the exclusion list, the bulk flags
\* and the prompt answers are.
C3_ExplicitFlagWins ==
    Resolved => \A f \in Features : Explicit(f) => Enabled(f)

\* C4: with --full and no explicit flag of the feature, in every order of the arguments,
\* a feature resolves to disabled if and only if an --except=<f>, --except <f> or
\* -e <f> entry names it, and to enabled otherwise.
C4_FullEnablesAllButExcepted ==
    Resolved /\ Includes(argv, "--full") =>
        \A f \in Features : ~Explicit(f) => (Enabled(f) <=> ~Excepted(f))

\* -e s3 before --full: s3 is disabled, the other features are enabled
C4_Witness ==
    /\ argv = <<"-e", "s3", "--full">>
    /\ Resolved
    /\ ~config.includeS3
    /\ config.includeApi /\ config.includeCognito /\ config.includeLambda
    /\ config.includeDynamo /\ config.includeEnvironments

\* C5: with --skip and without --full a feature resolves to enabled if and only if its
\* own explicit flag is on the command line.
C5_SkipEnablesExactlyTheExplicit ==
    Resolved /\ Includes(argv, "--skip") /\ ~Includes(argv, "--full") =>
        \A f \in Features : Enabled(f) <=> Explicit(f)

\* there is no signal for the feature on the command line
NoSignal(f) ==
    /\ ~Explicit(f)
    /\ ~Excepted(f)
    /\ ~Includes(argv, "--full")
    /\ ~Includes(argv, "--skip")

\* C6: a feature without a signal is resolved by asking the user: its confirm question
\* is in the question list given to the prompt collaborator and the resolved value is
\* the answer, also when other features were given by explicit flags.
C6_FeatureWithoutSignalIsAsked ==
    Resolved =>
        \A f \in Features :
            NoSignal(f) =>
                /\ Includes(questions, ConfirmQuestion(f))
                /\ Answered(response, ConfirmQuestion(f)) =>
                        Enabled(f) = response[ConfirmQuestion(f)]

\* a command line token that is no flag
HasPositional == \E i \in 1..Len(argv) : ~StartsWith(argv[i], "-")

\* C7: with --skip or --full the question list handed to the prompt collaborator holds
\* no domain, directory-choice, feature or environment-name question: nothing but the
\* project name question, and nothing at all when the project name is a positional
\* argument.
C7_BulkFlagsLeaveOnlyTheNameQuestion ==
    pc # "main" /\ (Includes(argv, "--skip") \/ Includes(argv, "--full")) =>
        /\ \A i \in 1..Len(questions) : questions[i] = "projectName"
        /\ HasPositional => questions = <<>>

\* --full without a name: the project name question alone was asked and answered
C7_Witness ==
    /\ argv = <<"--full">>
    /\ pc = "resolve"
    /\ questions = <<"projectName">>
    /\ Answered(response, "projectName")

(***************************************************************************)
(* The properties of a whole run (specification Spec).                     *)
(***************************************************************************)
\* the run is in the file-system stage
FileSystemStage == pc \in {"copy", "clone", "finish", "done"}

\* C8: the resolved project name is non-empty, holds only characters of [a-z0-9-] and has
\* no leading or trailing hyphen, and no run proceeds to the file-system stage with an
\* empty project name.
C8_ProjectNameIsNormalized ==
    /\ Resolved /\ config.projectName # "" =>
            /\ AllIn(config.projectName, NameChars)
            /\ SubSeq(config.projectName, 1, 1) # "-"
            /\ SubSeq(config.projectName, Len(config.projectName), Len(config.projectName)) # "-"
    /\ FileSystemStage => config.projectName # ""

\* the target directory held entries when the run began
TargetInUse == Resolved /\ HasEntries(disk0, config.targetPath)

\* C9: when the resolved target directory exists and is non-empty, nothing of it is
\* removed or overwritten before the user confirmed, and when the user declines the run
\* ends with exit code 1 and the directory unchanged; also under --skip and --full.
C9_NothingChangesWithoutConfirmation ==
    TargetInUse =>
        /\ disk # disk0 => confirm.value = "true"
        /\ confirm.name # Null /\ confirm.value # "true" =>
                pc = "exit" /\ exitCode = 1 /\ disk = disk0

\* under --skip the user declines to overwrite my-app, which holds a file: exit code 1
\* and the file system as it was
C9_Witness ==
    /\ Includes(argv, "--skip")
    /\ config.targetPath = "my-app"
    /\ HasEntries(disk0, "my-app")
    /\ confirm = [name |-> "overwrite", value |-> "false"]
    /\ pc = "exit"
    /\ exitCode = 1
    /\ disk = disk0

\* C10: when the positional argument is `.` the project is created in the current
\* working directory: the target path is the current directory, its existing content is
\* not removed, and a finished run has put the project there.
C10_DotCreatesInCurrentDirectory ==
    Resolved /\ customProjectName = "." =>
        /\ config.targetPath = ""
        /\ \A p \in DOMAIN disk0.files : p \in DOMAIN disk.files
        /\ pc = "done" => "package.json" \in DOMAIN disk.files

(***************************************************************************)
(* The resolution of the text inputs: the environments and the domain.     *)
(***************************************************************************)
\* the tokens of the command lines of SpecInput
InputArgs ==
    {"acme", "--environments", "--full", "--skip", "--domain", "acme.io", "--domain=acme_io"}

InitInput == InitWith(SeqsUpTo(InputArgs, MaxArgs), {EmptyDisk})

\* option resolution alone, over the command lines of InputArgs
SpecInput == InitInput /\ [][NextResolve]_vars

\* the environments a user means by an input the validator accepts
ParsedEnvironments(input) ==
    CASE input = "dev, staging , prod" -> <<"dev", "staging", "prod">>
      [] input = "staging,production" -> <<"staging", "production">>
      [] input = "production" -> <<"production">>
      [] OTHER -> <<>>

\* the user supplied a list of environments
EnvironmentsAnswered == Answered(response, "environments")

\* C11 as stated: the resolved environments are never empty, are ["production"] when the
\* environments feature is off, and are the user-supplied list, in the order given,
\* whenever the feature is on, be it by --environments, by --full or by a prompt answer.
C11_EnvironmentsAreTheSuppliedList ==
    Resolved =>
        /\ config.environments # <<>>
        /\ ~config.includeEnvironments => config.environments = <<"production">>
        /\ config.includeEnvironments =>
                /\ EnvironmentsAnswered
                /\ config.environments = ParsedEnvironments(response["environments"])

\* C11 amended: the resolved environments are never empty; they are ["production"] when
\* the feature is off or no list was supplied (the question is not asked under --full
\* and --skip, or the user cancelled), and the supplied list, in the order given, when
\* the feature is on and a list was supplied.
C11_EnvironmentsAreSuppliedOrProduction ==
    Resolved =>
        /\ config.environments # <<>>
        /\ ~config.includeEnvironments \/ ~EnvironmentsAnswered =>
                config.environments = <<"production">>
        /\ config.includeEnvironments /\ EnvironmentsAnswered =>
                config.environments = ParsedEnvironments(response["environments"])

\* --environments with the answer "dev, staging , prod"
C11_Witness ==
    /\ argv = <<"acme", "--environments">>
    /\ Resolved
    /\ config.includeEnvironments
    /\ EnvironmentsAnswered
    /\ response["environments"] = "dev, staging , prod"
    /\ config.environments = <<"dev", "staging", "prod">>

\* C12: the environments input is split on commas and each element trimmed, and an
\* input with an element that does not match [a-z0-9-]+, an empty element included, is
\* rejected as a whole: none of its elements is in the resolved environments.
C12_EnvironmentsInputIsValidatedAsAWhole ==
    Resolved =>
        /\ \A i \in 1..Len(config.environments) :
                /\ config.environments[i] # ""
                /\ AllIn(config.environments[i], NameChars)
        /\ EnvironmentsAnswered =>
                /\ response["environments"] \notin {"dev,,prod", "Dev", ""}
                /\ config.includeEnvironments /\ response["environments"] = "dev, staging , prod"
                        => config.environments = <<"dev", "staging", "prod">>

\* the environments feature chosen at the prompt and "dev, staging , prod" answered
C12_Witness ==
    /\ argv = <<"acme">>
    /\ Resolved
    /\ Answered(response, "wantEnvironments") /\ response["wantEnvironments"]
    /\ EnvironmentsAnswered
    /\ response["environments"] = "dev, staging , prod"
    /\ Len(config.environments) = 3
    /\ config.environments[2] = "staging"

\* the first --domain flag of the command line, 0 when there is none
DomainFlagAt == First({i \in 1..Len(argv) : StartsWith(argv[i], "--domain")})

\* the value that flag gives, Null when it gives none
FlagDomain ==
    IF DomainFlagAt = 0 THEN Null
    ELSE IF StrIncludes(argv[DomainFlagAt], "=")
         THEN SubSeq(argv[DomainFlagAt], Len("--domain=") + 1, Len(argv[DomainFlagAt]))
    ELSE IF DomainFlagAt < Len(argv) /\ ~StartsWith(argv[DomainFlagAt + 1], "--")
         THEN argv[DomainFlagAt + 1]
    ELSE Null

\* C15: the resolved domain is the value of the --domain flag when given, otherwise the
\* prompt answer when given, otherwise the normalized project name followed by .com.
C15_DomainPrecedence ==
    Resolved =>
        config.domain =
            IF FlagDomain # Null THEN FlagDomain
            ELSE IF Answered(response, "domain") THEN response["domain"]
            ELSE config.projectName \o ".com"

\* the flag --domain acme.io next to the name acme
C15_Witness ==
    /\ argv = <<"acme", "--domain", "acme.io">>
    /\ Resolved
    /\ config.projectName = "acme"
    /\ config.domain = "acme.io"

(***************************************************************************)
(* The runs that end before the file-system stage.                         *)
(***************************************************************************)
\* main() is past the test of the project name
PastNameCheck == pc \notin {"main", "prompts", "resolve"}

\* C14: when neither the positional argument nor the prompt answer gives a project name,
\* the run ends with exit code 1 before any file-system operation on the target
\* directory: nothing is created, removed or written.
C14_NoProjectNameExitsBeforeTheFileSystem ==
    PastNameCheck /\ ~HasPositional /\ ~Answered(response, "projectName") =>
        /\ pc = "exit"
        /\ exitCode = 1
        /\ config = NoConfig
        /\ disk = disk0
        /\ ~removed

\* --skip without a name in a directory in use, the name prompt cancelled
C14_Witness ==
    /\ argv = <<"--skip">>
    /\ questions = <<"projectName">>
    /\ response = <<>>
    /\ pc = "exit"
    /\ exitCode = 1
    /\ disk0 = UsedDisk
    /\ disk = disk0

(***************************************************************************)
(* The derived files (specification SpecGenerate): runs with the           *)
(* environments asked for, in the working directory, for every set of      *)
(* features and with the domain given by the flag, well-formed or not, or  *)
(* asked for; and the run of --full with two exceptions.                   *)
(***************************************************************************)
GenerateFeatures == <<"api", "lambda", "dynamo", "s3", "cognito">>

GenerateDomains == {<<>>, <<"--domain=acme.io">>, <<"--domain=acme_io">>}

GenerateArgs ==
    {<<"acme", "--environments", "-c">> \o dom \o FlagsOf(GenerateFeatures, S) :
        dom \in GenerateDomains,
        S \in SUBSET {GenerateFeatures[i] : i \in 1..Len(GenerateFeatures)}}
    \cup {<<"acme", "--full", "--except=s3", "--except=dynamo">>}

InitGenerate == InitWith(GenerateArgs, {EmptyDisk})

NextGenerate ==
    \/ ParseArgs
    \/ Prompt
    \/ Resolve
    \/ NoConfirmation
    \/ CopyTemplate
    \/ Finish

SpecGenerate == InitGenerate /\ [][NextGenerate]_vars

\* a domain with a character that no domain holds
Malformed(value) == ~AllIn(value, LowerChars \o DigitChars \o ".-")

\* C13: a malformed domain, given by the --domain flag or at the prompt, is an error: the
\* run ends with a non-zero exit code and no file-system generation has started.
C13_MalformedDomainStopsTheRun ==
    \/ FlagDomain # Null /\ Malformed(FlagDomain)
    \/ Answered(response, "domain") /\ Malformed(response["domain"])
    => /\ disk = disk0
       /\ pc \in {"finish", "done"} => exitCode # 0

\* the constants module written by the walk
ConstantsFile == disk.files[Output("packages/constants/src/index.ts")]

\* the text has the line
HasLine(content, line) == \E i \in 1..Len(content) : content[i] = line

\* the line that opens the domain table of an app
DomainTableHeader(app) ==
    IF app = "landing-page" THEN "  'landing-page': {" ELSE "  " \o app \o ": {"

\* the lines of the table that the header opens, up to the line that closes it
TableOf(content, header) ==
    LET open == First({i \in 1..Len(content) : content[i] = header})
        close == First({j \in (open + 1)..Len(content) : content[j] \in {"  },", "};"}})
    IN  IF open = 0 \/ close = 0 THEN <<>> ELSE SubSeq(content, open + 1, close - 1)

\* the domain of an app in an environment, as an expression over DOMAIN_BASE
ExpectedDomain(app, env) ==
    IF app = "landing-page"
    THEN IF env = "production" THEN "DOMAIN_BASE" ELSE "~" \o env \o ".${DOMAIN_BASE}~"
    ELSE IF env = "production" THEN "~" \o app \o ".${DOMAIN_BASE}~"
         ELSE "~" \o app \o "-" \o env \o ".${DOMAIN_BASE}~"

\* C16: the domain tables of the generated constants module have exactly one entry per
\* configured environment, in order: landing-page maps production to the base domain and
\* another environment e to e.<base>; api and apigw map production to api.<base> and
\* apigw.<base> and e to api-e.<base> and apigw-e.<base>; with ["production"] each table
\* has one entry.
C16_DomainTablesFollowTheNamingConvention ==
    Copied =>
        /\ HasLine(ConstantsFile, "export const DOMAIN_BASE = '" \o config.domain \o "';")
        /\ HasLine(ConstantsFile, DomainTableHeader("landing-page"))
        /\ \A app \in {"landing-page", "api", "apigw"} :
                HasLine(ConstantsFile, DomainTableHeader(app)) =>
                    /\ TableOf(ConstantsFile, DomainTableHeader(app))
                            = [i \in 1..Len(config.environments) |->
                                    "    " \o config.environments[i] \o ": "
                                        \o ExpectedDomain(app, config.environments[i]) \o ","]
                    /\ config.environments = <<"production">> =>
                            Len(TableOf(ConstantsFile, DomainTableHeader(app))) = 1

\* staging and production with api and lambda: the three tables, two entries each
C16_Witness ==
    /\ Copied
    /\ config.environments = <<"staging", "production">>
    /\ config.includeApi /\ config.includeLambda
    /\ TableOf(ConstantsFile, "  'landing-page': {")
            = <<"    staging: ~staging.${DOMAIN_BASE}~,", "    production: DOMAIN_BASE,">>
    /\ TableOf(ConstantsFile, "  api: {")
            = <<"    staging: ~api-staging.${DOMAIN_BASE}~,",
                "    production: ~api.${DOMAIN_BASE}~,">>
    /\ Len(TableOf(ConstantsFile, "  apigw: {")) = 2

\* the line that opens the table of resource names of a constant
NameTableHeader(constant) == "export const " \o constant \o ": Record<Environment, string> = {"

Readme == disk.files[Output("README.md")]

ReadmeWritten == Copied /\ Output("README.md") \in DOMAIN disk.files

Mentions(content, word) == \E i \in 1..Len(content) : StrIncludes(content[i], word)

AnyBackendFeature ==
    config.includeLambda \/ config.includeDynamo \/ config.includeS3 \/ config.includeCognito

\* the bullet of each backend resource and the words that name it
ReadmeResources ==
    {[enabled |-> config.includeCognito,
      bullet |-> "- **Cognito** - User authentication with email/password + OAuth",
      words |-> {"Cognito"}],
     [enabled |-> config.includeDynamo,
      bullet |-> "- **DynamoDB** - NoSQL database with single-table design",
      words |-> {"DynamoDB", "Dynamo"}],
     [enabled |-> config.includeS3,
      bullet |-> "- **S3 Storage** - Private bucket for file uploads",
      words |-> {"S3"}],
     [enabled |-> config.includeLambda,
      bullet |-> "- **API Gateway + Lambdas** - Serverless API endpoints",
      words |-> {"API Gateway", "Lambda"}]}

\* C18: the generated README has an Infrastructure section exactly when one of lambda,
\* dynamo, s3, cognito is enabled; the bullet of a backend resource is there exactly when
\* its feature is enabled, and no line of the README names a disabled resource.
C18_ReadmeListsExactlyTheEnabledResources ==
    ReadmeWritten =>
        /\ HasLine(Readme, "## Infrastructure") <=> AnyBackendFeature
        /\ \A r \in ReadmeResources :
              /\ HasLine(Readme, r.bullet) <=> r.enabled
              /\ ~r.enabled => \A w \in r.words : ~Mentions(Readme, w)

\* a README with the Infrastructure section where DynamoDB is left out and Cognito is listed
C18_Witness ==
    /\ ReadmeWritten
    /\ ~config.includeDynamo
    /\ config.includeCognito
    /\ HasLine(Readme, "## Infrastructure")
    /\ HasLine(Readme, "- **Cognito** - User authentication with email/password + OAuth")
    /\ ~Mentions(Readme, "DynamoDB")

(***************************************************************************)
(* C19: the generated infrastructure/src/index.ts.                         *)
(***************************************************************************)

InfrastructureIndex == disk.files[Output("infrastructure/src/index.ts")]

InfrastructureIndexWritten ==
    Copied /\ Output("infrastructure/src/index.ts") \in DOMAIN disk.files

\* the exports that index.ts derives from the backend component, by feature
BackendExports ==
    {[enabled |-> config.includeLambda,
      line |-> "export const apigwUrl = backend.apigateway.api.apiEndpoint;"],
     [enabled |-> config.includeDynamo,
      line |-> "export const dynamoTableName = backend.dynamo.table.name;"],
     [enabled |-> config.includeS3,
      line |-> "export const s3StorageBucketName = backend.storage.bucket.bucket;"],
     [enabled |-> config.includeCognito,
      line |-> "export const cognitoUserPoolId = backend.cognito.userpool.id;"],
     [enabled |-> config.includeCognito,
      line |-> "export const cognitoUserPoolClientId = backend.cognito.userpoolClient.id;"]}

\* C19: the generated infrastructure/src/index.ts imports and instantiates BackendComponent
\* exactly when one of lambda, dynamo, s3, cognito is enabled, and holds the export derived
\* from a backend resource exactly when the feature of that resource is enabled; with the
\* four disabled no line names the backend.
C19_IndexKeepsExactlyTheEnabledBackend ==
    InfrastructureIndexWritten =>
        /\ HasLine(InfrastructureIndex, "import { BackendComponent } from './components/backend';")
              <=> AnyBackendFeature
        /\ Mentions(InfrastructureIndex, "new BackendComponent(") <=> AnyBackendFeature
        /\ \A e \in BackendExports : HasLine(InfrastructureIndex, e.line) <=> e.enabled
        /\ ~AnyBackendFeature =>
              /\ ~Mentions(InfrastructureIndex, "BackendComponent")
              /\ ~Mentions(InfrastructureIndex, "backend.")

\* lambda alone: the backend is imported and the API Gateway export is the only one kept
C19_Witness ==
    /\ InfrastructureIndexWritten
    /\ config.includeLambda
    /\ ~config.includeDynamo /\ ~config.includeS3 /\ ~config.includeCognito
    /\ HasLine(InfrastructureIndex, "import { BackendComponent } from './components/backend';")
    /\ HasLine(InfrastructureIndex, "export const apigwUrl = backend.apigateway.api.apiEndpoint;")
    /\ ~HasLine(InfrastructureIndex, "export const dynamoTableName = backend.dynamo.table.name;")

(***************************************************************************)
(* C20: the generated infrastructure/src/components/backend.ts.            *)
(***************************************************************************)

BackendFile == disk.files[Output("infrastructure/src/components/backend.ts")]

BackendFileWritten ==
    Copied /\ Output("infrastructure/src/components/backend.ts") \in DOMAIN disk.files

\* what backend.ts holds for each resource: the field, the section of the constructor and
\* its statement, the import of the resource and the constants it depends on
BackendResources ==
    {[enabled |-> config.includeDynamo,
      field |-> "  public readonly dynamo: DynamoResource;",
      section |-> "    /* ---------- DynamoDB ---------- */",
      statement |-> "this.dynamo = new DynamoResource(",
      import |-> "import { DynamoResource } from '../resources/dynamo';",
      constants |-> {"DYNAMODB_TABLES"}],
     [enabled |-> config.includeS3,
      field |-> "  public readonly storage: S3StorageResource;",
      section |-> "    /* ---------- S3 Storage ---------- */",
      statement |-> "this.storage = new S3StorageResource(",
      import |-> "import { S3StorageResource } from '../resources/s3-storage';",
      constants |-> {"S3_BUCKETS"}],
     [enabled |-> config.includeCognito,
      field |-> "  public readonly cognito: CognitoResource;",
      section |-> "    /* ---------- Cognito ---------- */",
      statement |-> "this.cognito = new CognitoResource(",
      import |-> "import { CognitoResource } from '../resources/cognito';",
      constants |-> {"COGNITO_USER_POOLS", "COGNITO_USER_POOL_CLIENTS"}],
     [enabled |-> config.includeLambda,
      field |-> "  public readonly apigateway: ApigatewayResource;",
      section |-> "    /* ---------- API Gateway + Lambdas ---------- */",
      statement |-> "this.apigateway = new ApigatewayResource(",
      import |-> "import { ApigatewayResource } from '../resources/apigateway';",
      constants |-> {"DOMAIN_BASE"}]}

\* the lines of a content from the first line equal to header
From(content, header) ==
    IF HasLine(content, header)
    THEN LET first == CHOOSE i \in 1..Len(content) :
                          /\ content[i] = header
                          /\ \A j \in 1..(i - 1) : content[j] # header
         IN  SubSeq(content, first, Len(content))
    ELSE <<>>

Without(content, line) == SelectSeq(content, LAMBDA l : l # line)

ApigatewaySection == "    /* ---------- API Gateway + Lambdas ---------- */"

\* C20: the generated backend.ts keeps the field, the constructor section, the import and
\* the constants of a resource (dynamo, storage, cognito, apigateway) exactly when the
\* feature of that resource is enabled; with lambda enabled and dynamo disabled the
\* API-gateway section is the one of the template without its dynamodb: this.dynamo line.
C20_BackendKeepsExactlyTheEnabledResources ==
    BackendFileWritten =>
        /\ \A r \in BackendResources :
              /\ HasLine(BackendFile, r.field) <=> r.enabled
              /\ HasLine(BackendFile, r.section) <=> r.enabled
              /\ Mentions(BackendFile, r.statement) <=> r.enabled
              /\ HasLine(BackendFile, r.import) <=> r.enabled
              /\ \A c \in r.constants :
                    /\ HasLine(BackendFile, "  " \o c \o ",") <=> r.enabled
                    /\ ~r.enabled => ~Mentions(BackendFile, c \o "[")
        /\ config.includeLambda /\ ~config.includeDynamo =>
              /\ ~Mentions(BackendFile, "dynamodb: this.dynamo")
              /\ From(BackendFile, ApigatewaySection)
                    = Without(From(ReplaceProjectName(ReadFileSync(
                                       "infrastructure/src/components/backend.ts"),
                                       config.projectName),
                                   ApigatewaySection),
                              "        dynamodb: this.dynamo,")

\* lambda without dynamo: the API-gateway section is kept, without the cross-reference
C20_Witness ==
    /\ BackendFileWritten
    /\ config.includeLambda
    /\ ~config.includeDynamo
    /\ HasLine(BackendFile, "    this.apigateway = new ApigatewayResource(")
    /\ HasLine(BackendFile, "        domain: apigwDomain,")
    /\ ~HasLine(BackendFile, "        dynamodb: this.dynamo,")
    /\ ~HasLine(BackendFile, "  public readonly dynamo: DynamoResource;")

(***************************************************************************)
(* C21: the generated infrastructure/src/resources/apigateway.ts.          *)
(***************************************************************************)

ApigatewayFile == disk.files[Output("infrastructure/src/resources/apigateway.ts")]

ApigatewayFileWritten ==
    Copied /\ Output("infrastructure/src/resources/apigateway.ts") \in DOMAIN disk.files

DynamoImport == "import type { DynamoResource } from './dynamo';"

\* C21: with lambda enabled and dynamo disabled the generated apigateway.ts has no
\* DynamoResource-typed member in Props and no import of DynamoResource; with lambda and
\* dynamo enabled it keeps both.
C21_ApigatewayDropsTheDynamoParameter ==
    ApigatewayFileWritten =>
        /\ config.includeLambda /\ ~config.includeDynamo =>
              /\ ~HasLine(ApigatewayFile, DynamoImport)
              /\ ~Mentions(ApigatewayFile, "DynamoResource")
        /\ config.includeLambda /\ config.includeDynamo =>
              /\ HasLine(ApigatewayFile, DynamoImport)
              /\ Mentions(ApigatewayFile, ": DynamoResource;")

(***************************************************************************)
(* C22: the scripts of the generated root package.json.                    *)
(***************************************************************************)

RootManifest == disk.files[Output("package.json")]

RootManifestWritten == Copied /\ Output("package.json") \in DOMAIN disk.files

\* the line of a manifest that sets the script key to value, last of the scripts or not
ScriptLines(key, value) ==
    {"    \"" \o key \o "\": \"" \o value \o "\"",
     "    \"" \o key \o "\": \"" \o value \o "\","}

HasScript(content, key) == \E i \in 1..Len(content) : IsScript(content[i], key)

\* C22: in the generated root package.json, without lambda there is no build:lambdas script
\* and the build script is exactly bun run build:website; with lambda the manifest is the
\* one of the template, the aggregate build and build:lambdas included.
C22_RootManifestScriptsFollowLambda ==
    RootManifestWritten =>
        /\ ~config.includeLambda =>
              /\ ~HasScript(RootManifest, "build:lambdas")
              /\ ~Mentions(RootManifest, "build:lambdas")
              /\ \E i \in 1..Len(RootManifest) :
                    RootManifest[i] \in ScriptLines("build", "bun run build:website")
              /\ \A i \in 1..Len(RootManifest) :
                    IsScript(RootManifest[i], "build")
                        => RootManifest[i] \in ScriptLines("build", "bun run build:website")
        /\ config.includeLambda =>
              /\ RootManifest = ReplaceProjectName(ReadFileSync("package.json"),
                                                   config.projectName)
              /\ HasScript(RootManifest, "build:lambdas")
              /\ \E i \in 1..Len(RootManifest) :
                    RootManifest[i] \in
                        ScriptLines("build", "bun run build:website && bun run build:lambdas")

\* a root manifest written without lambda: the website build alone
C22_Witness ==
    /\ RootManifestWritten
    /\ ~config.includeLambda
    /\ HasScript(RootManifest, "build:website")
    /\ ~HasScript(RootManifest, "build:lambdas")
    /\ HasLine(RootManifest, "    \"build\": \"bun run build:website\",")

(***************************************************************************)
(* C23: the Pulumi.<environment>.yaml files of the output.                 *)
(***************************************************************************)

Environments == {config.environments[i] : i \in 1..Len(config.environments)}

PulumiEnvPath(e) == Output("infrastructure/Pulumi." \o e \o ".yaml")

\* the files of the output infrastructure directory named Pulumi.<something>.yaml
PulumiEnvFiles ==
    {p \in DOMAIN disk.files :
        /\ StartsWith(p, Output("infrastructure/Pulumi."))
        /\ EndsWith(p, ".yaml")
        /\ p # Output("infrastructure/Pulumi.yaml")}

\* the line following the first line equal to header, "" when there is none
LineAfter(content, header) ==
    IF \E i \in 1..(Len(content) - 1) : content[i] = header
    THEN content[1 + CHOOSE i \in 1..(Len(content) - 1) :
                        /\ content[i] = header
                        /\ \A j \in 1..(i - 1) : content[j] # header]
    ELSE ""

\* C23: after the walk the output infrastructure directory holds one Pulumi.<e>.yaml for
\* every configured environment e and for no other name; each carries the environment e,
\* the region us-east-1 and a tag block with the project name and e.
C23_OnePulumiConfigPerEnvironment ==
    Copied =>
        /\ PulumiEnvFiles = {PulumiEnvPath(e) : e \in Environments}
        /\ \A e \in Environments :
              LET file == disk.files[PulumiEnvPath(e)]
              IN  /\ HasLine(file, "  aws:region: us-east-1")
                  /\ HasLine(file, "  " \o config.projectName \o ":environment: " \o e)
                  /\ LineAfter(file, "  aws:defaultTags:") = "    tags:"
                  /\ LineAfter(file, "    tags:") = "      project: " \o config.projectName
                  /\ LineAfter(file, "      project: " \o config.projectName)
                        = "      environment: " \o e

\* three environments asked for: three files, the one of staging among them
C23_Witness ==
    /\ Copied
    /\ config.environments = <<"dev", "staging", "prod">>
    /\ PulumiEnvFiles = {PulumiEnvPath("dev"), PulumiEnvPath("staging"), PulumiEnvPath("prod")}
    /\ HasLine(disk.files[PulumiEnvPath("staging")], "      environment: staging")

(***************************************************************************)
(* C24: the clone of the API repository.                                   *)
(***************************************************************************)

ApiPath == Output("apps/api")

\* every file that is on the disk before the step is on it, unchanged, after the step
FilesRemain ==
    \A p \in DOMAIN disk.files : p \in DOMAIN disk'.files /\ disk'.files[p] = disk.files[p]

\* the step changes something under apps/api of the target
TouchesApi ==
    \E p \in (DOMAIN disk.files) \cup (DOMAIN disk'.files) :
        /\ Under(p, ApiPath)
        /\ \/ p \notin DOMAIN disk.files
           \/ p \notin DOMAIN disk'.files
           \/ disk.files[p] # disk'.files[p]

\* C24: the clone and its rewrites start only with the api feature enabled and only after
\* the walk has finished; when the clone or a later rewrite fails there is no retry, the
\* run ends with exit code 1 and every file that the walk generated stays where it is.
C24_CloneFailureKeepsTheWalk ==
    [][/\ pc' = "clone" => pc = "copy" /\ config.includeApi
       /\ pc = "clone" => /\ config.includeApi
                          /\ pc' \in {"finish", "exit"}
                          /\ pc' = "exit" => exitCode' = 1 /\ FilesRemain
       /\ pc # "clone" /\ Resolved /\ Copied => ~TouchesApi
       /\ pc = "exit" => FALSE]_vars

\* the clone failed after a walk into a new directory: exit code 1 and the walk is there
C24_Witness ==
    /\ pc = "exit"
    /\ exitCode = 1
    /\ config.includeApi
    /\ disk0 = EmptyDisk
    /\ Output("packages/constants/src/index.ts") \in DOMAIN disk.files
    /\ Output("README.md") \in DOMAIN disk.files

(***************************************************************************)
(* C25: two runs of the walk with the same configuration.                  *)
(***************************************************************************)

\* the path of p relative to the directory root
Relative(p, root) == IF root = "" THEN p ELSE SubSeq(p, Len(root) + 2, Len(p))

\* the tree below root: the relative path of every directory, and of every file with its
\* content
Tree(d, root) ==
    [dirs |-> {Relative(q, root) : q \in {q \in d.dirs : q # root /\ Under(q, root)}},
     files |-> {<<Relative(q, root), d.files[q]>> :
                    q \in {q \in DOMAIN d.files : Under(q, root)}}]

\* the target directory of the second run
SecondTarget == "second"

\* a second run of the walk with the configuration of the first, on a fresh file system
SecondRun == copyDirectory("", SecondTarget, config, EmptyDisk)

BothBulkFlags == Includes(argv, "--skip") /\ Includes(argv, "--full")

\* C26: with --skip and --full both on the command line, in either order, every feature
\* resolves to enabled unless the exclusion list names it, and to disabled when it does:
\* no feature is enabled and excluded at once.
C26_SkipAndFullResolveConsistently ==
    Resolved /\ BothBulkFlags =>
        \A f \in Features :
            /\ Enabled(f) <=> ~Excepted(f)
            /\ ~(Enabled(f) /\ Excepted(f))

\* --full before --skip with s3 excluded: s3 is disabled and the others are enabled
C26_Witness ==
    /\ argv = <<"--full", "--skip", "--except=s3">>
    /\ Resolved
    /\ ~config.includeS3
    /\ config.includeApi /\ config.includeCognito /\ config.includeLambda
    /\ config.includeDynamo /\ config.includeEnvironments

(***************************************************************************)
(* C27: the constants that backend.ts takes from the constants module.     *)
(***************************************************************************)

\* the number of the first line of content that satisfies Test, 0 when there is none
FirstLine(content, Test(_)) ==
    IF \E i \in 1..Len(content) : Test(content[i])
    THEN CHOOSE i \in 1..Len(content) :
            Test(content[i]) /\ \A j \in 1..(i - 1) : ~Test(content[j])
    ELSE 0

\* the element of an import list without its indentation and its comma
ImportName(line) ==
    LET trimmed == Trim(line)
    IN  IF EndsWith(trimmed, ",") THEN SubSeq(trimmed, 1, Len(trimmed) - 1) ELSE trimmed

\* the names between import { and } from '@<project>/constants' of backend.ts
ImportedConstants ==
    LET close == FirstLine(BackendFile, LAMBDA l : StartsWith(l, "} from '@")
                                                   /\ EndsWith(l, "/constants';"))
        open == IF close = 0 THEN 0
                ELSE CHOOSE i \in 0..close :
                        /\ i = 0 \/ BackendFile[i] = "import {"
                        /\ \A j \in (i + 1)..close : BackendFile[j] # "import {"
    IN  IF open = 0 THEN {}
        ELSE {ImportName(BackendFile[k]) : k \in (open + 1)..(close - 1)}

\* the constants that the constructor of backend.ts indexes by the environment
IndexedConstants ==
    {c \in {"DYNAMODB_TABLES", "S3_BUCKETS", "S3_STORAGE_BUCKETS", "COGNITO_USER_POOLS",
            "COGNITO_USER_POOL_CLIENTS", "DOMAINS"} :
        Mentions(BackendFile, c \o "[environment as Environment]")}

\* the constants module exports the name (a constant, or a type for type <name>)
Exported(name) ==
    IF StartsWith(name, "type ")
    THEN \E i \in 1..Len(ConstantsFile) :
            StartsWith(ConstantsFile[i],
                       "export type " \o SubSeq(name, 6, Len(name)) \o " =")
    ELSE \E i \in 1..Len(ConstantsFile) :
            \/ StartsWith(ConstantsFile[i], "export const " \o name \o " =")
            \/ StartsWith(ConstantsFile[i], "export const " \o name \o ":")

\* C27: every name that the generated backend.ts imports from the constants package, and
\* every constant that its constructor indexes, is exported under that name by the
\* constants module generated for the same configuration.
C27_BackendConstantsAreExported ==
    BackendFileWritten /\ Output("packages/constants/src/index.ts") \in DOMAIN disk.files =>
        \A name \in ImportedConstants \cup IndexedConstants : Exported(name)

(***************************************************************************)
(* C28: references to removed resources in the generated infrastructure.   *)
(***************************************************************************)

\* the module names of the import statements of a file: import ... from '<module>';
ImportedModules(content) ==
    {Split(content[i], "'")[2] :
        i \in {i \in 1..Len(content) :
                  StartsWith(content[i], "import ") /\ StrIncludes(content[i], " from '")}}

\* the module is a file of the output: <path>.ts or <path>/index.ts
ModuleWritten(path) ==
    \/ Output(path \o ".ts") \in DOMAIN disk.files
    \/ Output(path \o "/index.ts") \in DOMAIN disk.files

\* the imports of backend.ts from ../resources and of apigateway.ts from its directory
ResourceImports ==
    {"infrastructure/src/resources/" \o SubSeq(m, Len("../resources/") + 1, Len(m)) :
        m \in {m \in ImportedModules(BackendFile) : StartsWith(m, "../resources/")}}
    \cup (IF ApigatewayFileWritten
          THEN {"infrastructure/src/resources/" \o SubSeq(m, 3, Len(m)) :
                   m \in {m \in ImportedModules(ApigatewayFile) : StartsWith(m, "./")}}
          ELSE {})

BackendFields == {"dynamo", "storage", "cognito", "apigateway"}

DeclaresField(r) ==
    \E i \in 1..Len(BackendFile) : StartsWith(BackendFile[i], "  public readonly " \o r \o ": ")

\* the resource types that a file names and the module it has to import them from
ResourceTypes == {"DynamoResource", "S3StorageResource", "CognitoResource",
                  "ApigatewayResource", "DNSResource", "ApiLambdas"}

ImportsType(content, type) ==
    \E i \in 1..Len(content) :
        /\ StartsWith(content[i], "import ")
        /\ StrIncludes(content[i], "{ " \o type \o " }")

\* a file names a resource type outside its import statements and its own declaration
NamesType(content, type) ==
    \E i \in 1..Len(content) :
        /\ StrIncludes(content[i], type)
        /\ ~StartsWith(content[i], "import ")
        /\ ~StrIncludes(content[i], "class " \o type)

\* the enumerated references: imports of resource files, this.<resource>, backend.<resource>
C28_ImportsAndFieldsResolve ==
    BackendFileWritten /\ InfrastructureIndexWritten =>
        /\ \A path \in ResourceImports : ModuleWritten(path)
        /\ \A r \in BackendFields :
              /\ Mentions(BackendFile, "this." \o r) => DeclaresField(r)
              /\ Mentions(InfrastructureIndex, "backend." \o r \o ".") => DeclaresField(r)

\* C28: the generated infrastructure sources hold no dangling reference to a removed
\* resource: backend.ts and apigateway.ts import a resource file only if the walk kept it,
\* backend.ts uses this.<resource> and index.ts uses backend.<resource> only if backend.ts
\* declares the field, and a resource type is named only where it is imported.
C28_NoDanglingReference ==
    BackendFileWritten /\ InfrastructureIndexWritten =>
        /\ C28_ImportsAndFieldsResolve
        /\ \A type \in ResourceTypes :
              /\ NamesType(BackendFile, type) => ImportsType(BackendFile, type)
              /\ ApigatewayFileWritten /\ NamesType(ApigatewayFile, type)
                    => ImportsType(ApigatewayFile, type)

(***************************************************************************)
(* C29: the project name on the command line.                              *)
(***************************************************************************)

\* the argument is the value of a --domain, --except or -e that stands before it
IsFlagValue(i) ==
    /\ i > 1
    /\ argv[i - 1] \in {"--domain", "--except", "-e"}
    /\ ~StartsWith(argv[i], "-")

\* the positional arguments: no flag and no value of a flag
Positionals == {i \in 1..Len(argv) : ~StartsWith(argv[i], "-") /\ ~IsFlagValue(i)}

\* C29: the project name of the command line is the positional argument alone: the value
\* of a --domain, --except or -e given as a separate token is never the project name, and
\* without a positional argument the project name question is asked.
C29_FlagValuesAreNoProjectName ==
    pc # "main" =>
        /\ Positionals = {} => Includes(questions, "projectName")
        /\ Positionals # {} /\ Resolved =>
              \E i \in Positionals : config.projectName = Kebabify(argv[i])

(***************************************************************************)
(* C30: what a run removes.                                                *)
(***************************************************************************)

\* the current working directory, as PathResolve gives it
WorkingDirectory == ""

\* everything that the file system held when the run began is still there
NothingRemoved ==
    /\ disk0.dirs \subseteq disk.dirs
    /\ \A p \in DOMAIN disk0.files : p \in DOMAIN disk.files

\* C30: a run removes a directory only when the target is a new folder that exists already
\* and the user confirmed the overwrite; when the target is the current working directory
\* the run removes neither the directory nor a file of it.
C30_OnlyAConfirmedNewFolderIsRemoved ==
    Resolved =>
        /\ removed =>
              /\ config.targetPath # WorkingDirectory
              /\ ExistsSync(disk0, config.targetPath)
              /\ confirm = [name |-> "overwrite", value |-> "true"]
        /\ ~removed => NothingRemoved
        /\ config.targetPath = WorkingDirectory => ~removed /\ NothingRemoved
====
